---- MODULE Spec2Model ----
(***************************************************************************)
(* The in-process reminder scheduler of the Life Tracker API               *)
(* (utils/scheduleService.js), the notification callbacks of               *)
(* utils/emailService.js, the task and habit models and the route handlers *)
(* that call the scheduler.                                                *)
(*                                                                         *)
(* Time is counted in seconds of local time since 1 January of EpochYear,  *)
(* 00:00:00.  JavaScript counts milliseconds; every instant the model uses *)
(* is a whole second, and the one sub-second quantity, the 1 ms delay that *)
(* setTimeout substitutes for a delay out of its range, is 0 seconds.      *)
(* Months and task/habit fields keep the JavaScript conventions (months    *)
(* are 0-based, a missing value is Null).                                  *)
(***************************************************************************)
EXTENDS Integers, Sequences, FiniteSets, Bags, TLC

VARIABLES
    now,            \* the wall clock (new Date())
    tasks,          \* the persisted tasks: db.ref('tasks'), id -> record or Null
    habits,         \* the persisted habits: db.ref('habits'), id -> record or Null
    scheduledJobs,  \* the Job Store: Map jobId -> jobInfo
    timers,         \* every timer setTimeout created, by handle, with its callback's progress
    sent,           \* the messages transporter.sendMail accepted
    ret,            \* what the last exported-scheduler call made directly returned
    reqs,           \* the HTTP requests being handled (a bag: two may be alike)
    keys,           \* the keys db.ref(...).push() has generated
    calc,           \* the recurrence calculator applied to one input (SpecRecurrence)
    boot            \* the server's startup, and initializeScheduler's position,
                    \* snapshots and the user records its lookups gave

vars == <<now, tasks, habits, scheduledJobs, timers, sent, ret, reqs, keys, calc, boot>>

Null == "null"

(***************************************************************************)
(* Bounds of the model.                                                    *)
(***************************************************************************)
EpochYear == 2027
MaxTimers == 2
MaxRequests == 1
MaxStreak == 2
MaxCalls == 2
MaxOverlap == 2
MaxPersisted == 3

Users == {"u1", "u2"}
\* The users whose requests arrive.
Clients == {"u1"}
TaskIds == {"t1"}
HabitIds == {"h1"}
\* 'yearly' stands for any frequency string the switch does not know, Null
\* for a payload without frequency.
Frequencies == {"daily", "weekly", "monthly", "yearly"}

(***************************************************************************)
(* The calendar: JavaScript's Date in local time (no DST change).          *)
(***************************************************************************)
MINUTE == 60 * 1
HOUR == 60 * MINUTE
DAY == 24 * HOUR

IsLeapYear(y) == (y % 4 = 0 /\ y % 100 # 0) \/ y % 400 = 0

DaysInYear(y) == IF IsLeapYear(y) THEN 366 ELSE 365

DaysInMonth(y, m) ==
    IF m = 1 THEN (IF IsLeapYear(y) THEN 29 ELSE 28)
    ELSE IF m \in {3, 5, 8, 10} THEN 30 ELSE 31

RECURSIVE DaysBeforeYear(_)
DaysBeforeYear(y) ==
    IF y <= EpochYear THEN 0 ELSE DaysBeforeYear(y - 1) + DaysInYear(y - 1)

RECURSIVE DaysBeforeMonth(_, _)
DaysBeforeMonth(y, m) ==
    IF m = 0 THEN 0 ELSE DaysBeforeMonth(y, m - 1) + DaysInMonth(y, m - 1)

\* MakeDay of ECMAScript: a month past December carries into the year, a day
\* past the month's end carries into the following months.
MakeDay(y, m, d) ==
    LET yy == y + (m \div 12)
        mm == m % 12
    IN  DaysBeforeYear(yy) + DaysBeforeMonth(yy, mm) + (d - 1)

RECURSIVE YearFromDay(_, _)
YearFromDay(y, n) ==
    IF n < DaysBeforeYear(y + 1) THEN y ELSE YearFromDay(y + 1, n)

RECURSIVE MonthFromDay(_, _, _)
MonthFromDay(y, m, n) ==
    IF n < DaysBeforeYear(y) + DaysBeforeMonth(y, m + 1) THEN m
    ELSE MonthFromDay(y, m + 1, n)

getFullYear(t) == YearFromDay(EpochYear, t \div DAY)
getMonth(t) == MonthFromDay(getFullYear(t), 0, t \div DAY)
getDate(t) ==
    (t \div DAY) - DaysBeforeYear(getFullYear(t))
                 - DaysBeforeMonth(getFullYear(t), getMonth(t)) + 1
TimeOfDay(t) == t % DAY

setDate(t, d) == MakeDay(getFullYear(t), getMonth(t), d) * DAY + TimeOfDay(t)
setMonth(t, m) == MakeDay(getFullYear(t), m, getDate(t)) * DAY + TimeOfDay(t)
setHours(t, h) == (t \div DAY) * DAY + h * HOUR

\* The instant of a calendar date of EpochYear (month 0-based).
At(m, d, h, mi) == MakeDay(EpochYear, m, d) * DAY + h * HOUR + mi * MINUTE


(***************************************************************************)
(* Values.  A missing date is NoDate, a missing job id NoJobId, an absent  *)
(* entity (a null snapshot) NoTask / NoHabit.                              *)
(***************************************************************************)
NoDate == 0 - 1
NoJobId == <<>>
NoTask == [exists |-> FALSE, userId |-> Null, dueDate |-> NoDate, completed |-> FALSE]
NoHabit == [exists |-> FALSE, userId |-> Null, frequency |-> Null, streak |-> 0]

\* The instants the clock takes, where tasks are followed and where habits
\* are, and the due dates requests carry.  The clock starts on 30 January,
\* 10:00.
T0 == At(0, 30, 10, 0)
TaskInstants == {T0 + 45 * MINUTE, T0 + 2 * HOUR}
HabitInstants == {At(0, 31, 9, 0), At(1, 7, 9, 0)}
DueDates == {T0 + 15 * MINUTE, T0 + HOUR, T0 + 30 * DAY}
\* The due dates scheduleTaskDueReminder is called with directly.
CallDueDates == {T0 + 15 * MINUTE, T0 + HOUR, T0 + 3 * HOUR}

REMINDER_LEAD == 15 * 60

\* Node's TIMEOUT_MAX, 2^31 - 1 ms, in whole seconds: a delay of more
\* seconds than this is more than 2^31 - 1 ms.
TIMEOUT_MAX == 2147483647 \div 1000

\* setTimeout(callback, delay): a delay below 1 ms or above TIMEOUT_MAX is
\* replaced by 1 ms (0 s here); the result is the delay the timer waits.
setTimeoutDelay(delay) == IF delay < 1 \/ delay > TIMEOUT_MAX THEN 0 ELSE delay

(***************************************************************************)
(* The Job Store and the timers.  S is the scheduler's state, the record   *)
(* [jobs |-> scheduledJobs, timers |-> timers]; an operation returns the   *)
(* state after it.                                                         *)
(***************************************************************************)
Sched == [jobs |-> scheduledJobs, timers |-> timers]

MapSet(m, k, v) == [x \in DOMAIN m \cup {k} |-> IF x = k THEN v ELSE m[x]]
MapDelete(m, k) == [x \in DOMAIN m \ {k} |-> m[x]]

TaskPayload(userId, taskId) ==
    [userId |-> userId, taskId |-> taskId, habitId |-> Null,
     frequency |-> Null, recurring |-> FALSE]
HabitPayload(userId, habitId, frequency) ==
    [userId |-> userId, taskId |-> Null, habitId |-> habitId,
     frequency |-> frequency, recurring |-> TRUE]

NoPayload == [userId |-> Null, taskId |-> Null, habitId |-> Null,
              frequency |-> Null, recurring |-> FALSE]

\* A timer: "live" until it fires or is cleared, then its callback's position
\* ("fetch", "send") with the callback's locals, and in the end only how it
\* ended: "cancelled", "done" or "failed", with the callback's result.
NoTimer == [state |-> "none", jobId |-> NoJobId, callback |-> Null,
            data |-> NoPayload, scheduledFor |-> NoDate, fireAt |-> NoDate,
            startedAt |-> NoDate, task |-> NoTask, habit |-> NoHabit,
            result |-> "none"]
Ended(state, result) == [NoTimer EXCEPT !.state = state, !.result = result]

\* scheduleJob(jobId, executeAt, callback, data); jobInfo.createdAt, which
\* nothing reads, is left out.
scheduleJob(S, jobId, executeAt, callback, data) ==
    LET delay0 == executeAt - now
        delay == IF delay0 < 0 THEN 1 ELSE delay0
        timerId == Len(S.timers) + 1
        jobInfo == [id |-> jobId, scheduledFor |-> executeAt, data |-> data,
                    timerId |-> timerId]
        timer == [NoTimer EXCEPT !.state = "live", !.jobId = jobId,
                                 !.callback = callback, !.data = data,
                                 !.scheduledFor = executeAt,
                                 !.fireAt = now + setTimeoutDelay(delay)]
    IN  [jobs |-> MapSet(S.jobs, jobId, jobInfo), timers |-> Append(S.timers, timer)]

\* The next occurrence scheduleNextRecurrence computes at instant t.
nextExecutionDate(frequency, t) ==
    LET d == CASE frequency = "daily" -> setDate(t, getDate(t) + 1)
               [] frequency = "weekly" -> setDate(t, getDate(t) + 7)
               [] frequency = "monthly" -> setMonth(t, getMonth(t) + 1)
               [] OTHER -> setDate(t, getDate(t) + 1)
    IN  setHours(d, 9)

scheduleNextRecurrence(S, data) ==
    LET next == nextExecutionDate(data.frequency, now)
        reminderJobId == <<"reminder", data.habitId, next>>
    IN  scheduleJob(S, reminderJobId, next, "sendHabitReminderEmail",
                    HabitPayload(data.userId, data.habitId, data.frequency))

\* cancelJob that reports every id as found.
cancelJob_alwaysFound(S, jobId) ==
    IF jobId \notin DOMAIN S.jobs THEN [S |-> S, value |-> TRUE]
    ELSE LET t == S.jobs[jobId].timerId
             cleared == IF S.timers[t].state = "live"
                        THEN [S.timers EXCEPT ![t] = Ended("cancelled", "none")]
                        ELSE S.timers
         IN  [S |-> [jobs |-> MapDelete(S.jobs, jobId), timers |-> cleared],
              value |-> TRUE]

\* cancelJob(jobId): the state after it and the value returned.  clearTimeout
\* stops a live timer and does nothing to one that has fired.
cancelJob(S, jobId) ==
    IF jobId \notin DOMAIN S.jobs THEN [S |-> S, value |-> FALSE]
    ELSE LET t == S.jobs[jobId].timerId
             cleared == IF S.timers[t].state = "live"
                        THEN [S.timers EXCEPT ![t] = Ended("cancelled", "none")]
                        ELSE S.timers
         IN  [S |-> [jobs |-> MapDelete(S.jobs, jobId), timers |-> cleared],
              value |-> TRUE]

RECURSIVE cancelEach(_, _)
cancelEach(S, ids) ==
    IF ids = {} THEN S
    ELSE LET id == CHOOSE i \in ids : TRUE
         IN  cancelEach(cancelJob(S, id).S, ids \ {id})

cancelAllJobsForHabit(S, habitId) ==
    cancelEach(S, {id \in DOMAIN S.jobs : S.jobs[id].data.habitId = habitId})

\* cancelAllJobsForTask that does not look at the payload.
cancelAllJobsForTask_everyJob(S, taskId) ==
    cancelEach(S, DOMAIN S.jobs)

cancelAllJobsForTask(S, taskId) ==
    cancelEach(S, {id \in DOMAIN S.jobs : S.jobs[id].data.taskId = taskId})

\* scheduleHabitReminder with the first reminder at 09:00 of the same day.
scheduleHabitReminder_sameDay(S, habitId, habit, userId) ==
    LET today == setHours(now, 9)
        reminderJobId == <<"reminder", habitId, today>>
    IN  scheduleJob(S, reminderJobId, today, "sendHabitReminderEmail",
                    HabitPayload(userId, habitId, habit.frequency))

\* scheduleHabitReminder(habitId, habit, userId, email, name)
scheduleHabitReminder(S, habitId, habit, userId) ==
    LET tomorrow == setHours(setDate(now, getDate(now) + 1), 9)
        reminderJobId == <<"reminder", habitId, tomorrow>>
    IN  scheduleJob(S, reminderJobId, tomorrow, "sendHabitReminderEmail",
                    HabitPayload(userId, habitId, habit.frequency))

\* scheduleTaskDueReminder with the reminder at the due date itself.
scheduleTaskDueReminder_atDueDate(S, taskId, task, userId) ==
    IF task.dueDate = NoDate \/ task.completed THEN [S |-> S, value |-> NoJobId]
    ELSE LET reminderTime == task.dueDate
             reminderJobId == <<"task_due", taskId, reminderTime>>
         IN  IF reminderTime <= now THEN [S |-> S, value |-> NoJobId]
             ELSE [S |-> scheduleJob(S, reminderJobId, reminderTime,
                                     "sendTaskDueReminderEmail",
                                     TaskPayload(userId, taskId)),
                   value |-> reminderJobId]

\* scheduleTaskDueReminder that schedules a reminder due at this very instant
\* (reminderTime < now for reminderTime <= now).
scheduleTaskDueReminder_notStrict(S, taskId, task, userId) ==
    IF task.dueDate = NoDate \/ task.completed THEN [S |-> S, value |-> NoJobId]
    ELSE LET reminderTime == task.dueDate - REMINDER_LEAD
             reminderJobId == <<"task_due", taskId, reminderTime>>
         IN  IF reminderTime < now THEN [S |-> S, value |-> NoJobId]
             ELSE [S |-> scheduleJob(S, reminderJobId, reminderTime,
                                     "sendTaskDueReminderEmail",
                                     TaskPayload(userId, taskId)),
                   value |-> reminderJobId]

\* scheduleTaskDueReminder(taskId, task, userId, email, name): the state
\* after it and the value returned.
scheduleTaskDueReminder(S, taskId, task, userId) ==
    IF task.dueDate = NoDate \/ task.completed THEN [S |-> S, value |-> NoJobId]
    ELSE LET reminderTime == task.dueDate - REMINDER_LEAD
             reminderJobId == <<"task_due", taskId, reminderTime>>
         IN  IF reminderTime <= now THEN [S |-> S, value |-> NoJobId]
             ELSE [S |-> scheduleJob(S, reminderJobId, reminderTime,
                                     "sendTaskDueReminderEmail",
                                     TaskPayload(userId, taskId)),
                   value |-> reminderJobId]

(***************************************************************************)
(* The models' reads.                                                      *)
(***************************************************************************)
\* getTaskById that does not compare task.userId with the caller.
getTaskById_anyUser(id, userId) ==
    IF ~tasks[id].exists THEN NoTask ELSE tasks[id]

getTaskById(id, userId) ==
    IF ~tasks[id].exists \/ tasks[id].userId # userId THEN NoTask ELSE tasks[id]

getHabitById(id, userId) ==
    IF ~habits[id].exists \/ habits[id].userId # userId THEN NoHabit ELSE habits[id]

(***************************************************************************)
(* The notification callbacks (emailService.js) and the timer callback     *)
(* that scheduleJob hands to setTimeout.                                   *)
(***************************************************************************)
\* sendTaskDueReminderEmail that does not look at task.completed.
taskReminderOutcome_ignoresCompleted(task) ==
    IF ~task.exists THEN "task_not_found" ELSE "send"

\* sendTaskDueReminderEmail once its fetch resolved with `task`: the reason
\* it returns without sending, or "send".
taskReminderOutcome(task) ==
    IF ~task.exists THEN "task_not_found"
    ELSE IF task.completed THEN "task_completed" ELSE "send"

\* sendHabitReminderEmail that does not look whether the habit exists.
habitReminderOutcome_alwaysSends(habit) == "send"

\* sendHabitReminderEmail once its fetch resolved with `habit`.
habitReminderOutcome(habit) ==
    IF ~habit.exists THEN "habit_not_found" ELSE "send"

\* The timer callback that schedules the next occurrence and leaves the fired
\* job in the store.
callbackReturned_keepsJob(S, t) ==
    LET tm == S.timers[t]
        S1 == [jobs |-> S.jobs,
               timers |-> [S.timers EXCEPT ![t] = Ended("done", tm.result)]]
    IN  IF tm.data.recurring THEN scheduleNextRecurrence(S1, tm.data) ELSE S1

\* The timer callback after `await callback(data)` returned.
callbackReturned(S, t) ==
    LET tm == S.timers[t]
        S1 == [jobs |-> MapDelete(S.jobs, tm.jobId),
               timers |-> [S.timers EXCEPT ![t] = Ended("done", tm.result)]]
    IN  IF tm.data.recurring THEN scheduleNextRecurrence(S1, tm.data) ELSE S1

\* The timer callback without its try/catch: the rejection reaches the
\* process's unhandledRejection handler, which exits, and no timer is left.
callbackThrew_exitsProcess(S, t) ==
    [S EXCEPT !.timers = [u \in DOMAIN S.timers |->
                            IF u = t
                            THEN Ended("failed", IF S.timers[t].state = "fetch"
                                                 THEN "fetch_threw" ELSE "send_threw")
                            ELSE IF S.timers[u].state = "live"
                            THEN Ended("cancelled", "none")
                            ELSE S.timers[u]]]

\* The timer callback after `await callback(data)` threw: the catch logs.
callbackThrew(S, t) ==
    [S EXCEPT !.timers[t] = Ended("failed", IF S.timers[t].state = "fetch"
                                            THEN "fetch_threw" ELSE "send_threw")]

TimerIds == 1..Len(timers)

\* The state after an operation, unless it creates more timers than the model
\* has.
SetSched(S) ==
    /\ Len(S.timers) <= MaxTimers \/ Len(S.timers) <= Len(timers)
    /\ scheduledJobs' = S.jobs
    /\ timers' = S.timers

\* The timer callback that removes its job from the store as soon as it runs.
TimerFires_deletesJob(t) ==
    /\ timers[t].state = "live"
    /\ now >= timers[t].fireAt
    /\ timers' = [timers EXCEPT ![t].state = "fetch", ![t].startedAt = now,
                                ![t].fireAt = NoDate]
    /\ scheduledJobs' = MapDelete(scheduledJobs, timers[t].jobId)
    /\ UNCHANGED <<now, tasks, habits, sent, ret, reqs, keys, calc, boot>>

\* A live timer expires: Node runs the callback, which starts the fetch.
TimerFires(t) ==
    /\ timers[t].state = "live"
    /\ now >= timers[t].fireAt
    /\ timers' = [timers EXCEPT ![t].state = "fetch", ![t].startedAt = now,
                                ![t].fireAt = NoDate]
    /\ UNCHANGED <<now, tasks, habits, scheduledJobs, sent, ret, reqs, keys, calc, boot>>

\* sendTaskDueReminderEmail: getTaskById resolves or rejects.
TaskFetched(t) ==
    /\ timers[t].state = "fetch"
    /\ timers[t].callback = "sendTaskDueReminderEmail"
    /\ \E dbOk \in BOOLEAN :
         LET tm == timers[t]
             task == getTaskById(tm.data.taskId, tm.data.userId)
             outcome == taskReminderOutcome(task)
             S0 == [Sched EXCEPT !.timers[t].task = task]
         IN  SetSched(IF ~dbOk THEN callbackThrew(Sched, t)
                      ELSE IF outcome = "send"
                           THEN [S0 EXCEPT !.timers[t].state = "send"]
                           ELSE callbackReturned(
                                    [S0 EXCEPT !.timers[t].result = outcome], t))
    /\ UNCHANGED <<now, tasks, habits, sent, ret, reqs, keys, calc, boot>>

\* sendHabitReminderEmail: getHabitById resolves or rejects.
HabitFetched(t) ==
    /\ timers[t].state = "fetch"
    /\ timers[t].callback = "sendHabitReminderEmail"
    /\ \E dbOk \in BOOLEAN :
         LET tm == timers[t]
             habit == getHabitById(tm.data.habitId, tm.data.userId)
             outcome == habitReminderOutcome(habit)
             S0 == [Sched EXCEPT !.timers[t].habit = habit]
         IN  SetSched(IF ~dbOk THEN callbackThrew(Sched, t)
                      ELSE IF outcome = "send"
                           THEN [S0 EXCEPT !.timers[t].state = "send"]
                           ELSE callbackReturned(
                                    [S0 EXCEPT !.timers[t].result = outcome], t))
    /\ UNCHANGED <<now, tasks, habits, sent, ret, reqs, keys, calc, boot>>

\* The message a callback composes from its payload and the entity it fetched.
Message(t) ==
    [timer |-> t, jobId |-> timers[t].jobId, to |-> timers[t].data.userId,
     streak |-> timers[t].habit.streak]

\* transporter.sendMail resolves or rejects.
MailSent(t) ==
    /\ timers[t].state = "send"
    /\ \E mailOk \in BOOLEAN :
         IF mailOk
         THEN /\ sent' = sent \cup {Message(t)}
              /\ SetSched(callbackReturned([Sched EXCEPT !.timers[t].result = "sent"], t))
         ELSE /\ sent' = sent
              /\ SetSched(callbackThrew(Sched, t))
    /\ UNCHANGED <<now, tasks, habits, ret, reqs, keys, calc, boot>>

\* Time passes.
\* Time passes to the next instant of the model, once the timers that have
\* expired have fired.
Tick(t) ==
    /\ \A i \in TimerIds : timers[i].state = "live" => timers[i].fireAt > now
    /\ t > now
    /\ now' = t
    /\ UNCHANGED <<tasks, habits, scheduledJobs, timers, sent, ret, reqs, keys, calc, boot>>

\* scheduleTaskDueReminder called with any task object (the model follows
\* MaxCalls calls that register a job).
CallScheduleTaskDueReminder(taskId, dueDate, completed, userId) ==
    LET task == [exists |-> TRUE, userId |-> userId, dueDate |-> dueDate,
                 completed |-> completed]
        r == scheduleTaskDueReminder(Sched, taskId, task, userId)
    IN  /\ Len(r.S.timers) <= MaxCalls
        /\ SetSched(r.S)
        /\ ret' = [fn |-> "scheduleTaskDueReminder", taskId |-> taskId,
                   dueDate |-> dueDate, completed |-> completed,
                   value |-> r.value]
        /\ UNCHANGED <<now, tasks, habits, sent, reqs, keys, calc, boot>>

(***************************************************************************)
(* The route handlers.  A request is a record: the handler (op), the await *)
(* it is suspended at (pc), the authenticated user, the entity id and the  *)
(* handler's local variables.  The code between two awaits is one step.    *)
(***************************************************************************)
\* The fields of a request body the handlers look at; a field that is not
\* in the body (undefined) has its has-flag FALSE.
NoUpdates == [hasDueDate |-> FALSE, dueDate |-> NoDate,
              hasCompleted |-> FALSE, completed |-> FALSE,
              hasFrequency |-> FALSE, frequency |-> Null]

NewReq(op, pc, user, id) ==
    [op |-> op, pc |-> pc, user |-> user, id |-> id, task |-> NoTask,
     habit |-> NoHabit, updates |-> NoUpdates]

Requests == BagToSet(reqs)
Arrive(req) == reqs' = reqs (+) SetToBag({req})
Continue(r, req) == reqs' = (reqs (-) SetToBag({r})) (+) SetToBag({req})
\* The response is sent and the request is over.
Respond(r, status) == reqs' = reqs (-) SetToBag({r})
\* At most MaxRequests requests are being handled at a time.
CanArrive == BagCardinality(reqs) < MaxRequests
At_(r, op, pc) == r.op = op /\ r.pc = pc

\* admin.auth().getUser(userId): the record with an email, without one, or a rejection.
GetUserOutcomes == {"email", "no_email", "throws"}

\* POST /tasks: createTask's set is persisted.
PostTaskArrives(user, dueDate) ==
    /\ TaskIds \ keys # {}
    /\ LET id == CHOOSE k \in TaskIds \ keys : TRUE
       IN  /\ keys' = keys \cup {id}
           /\ tasks' = [tasks EXCEPT ![id] = [exists |-> TRUE, userId |-> user,
                                              dueDate |-> dueDate, completed |-> FALSE]]
           /\ Arrive(NewReq("POST /tasks", "getTaskById", user, id))
    /\ UNCHANGED <<now, habits, scheduledJobs, timers, sent, ret, calc, boot>>

PostTask(user, dueDate) == CanArrive /\ PostTaskArrives(user, dueDate)

\* POST /tasks: getTaskById(taskId, userId) resolves.
PostTaskRead(r) ==
    /\ At_(r, "POST /tasks", "getTaskById")
    /\ LET insertedTask == getTaskById(r.id, r.user)
       IN  IF ~insertedTask.exists THEN Respond(r, 500)
           ELSE IF insertedTask.dueDate = NoDate THEN Respond(r, 201)
           ELSE Continue(r, [r EXCEPT !.pc = "getUser", !.task = insertedTask])
    /\ UNCHANGED <<now, tasks, habits, scheduledJobs, timers, sent, ret, keys, calc, boot>>

\* POST /tasks: getUser resolves or rejects; the reminder is scheduled.
PostTaskUser(r) ==
    /\ At_(r, "POST /tasks", "getUser")
    /\ \E u \in GetUserOutcomes :
         SetSched(IF u = "email"
                  THEN scheduleTaskDueReminder(Sched, r.id, r.task,
                                               r.user).S
                  ELSE Sched)
    /\ Respond(r, 201)
    /\ UNCHANGED <<now, tasks, habits, sent, ret, keys, calc, boot>>

\* POST /habits: createHabit's set is persisted.
PostHabit(user, frequency) ==
    /\ CanArrive
    /\ HabitIds \ keys # {}
    /\ LET id == CHOOSE k \in HabitIds \ keys : TRUE
       IN  /\ keys' = keys \cup {id}
           /\ habits' = [habits EXCEPT ![id] = [exists |-> TRUE, userId |-> user,
                                                frequency |-> frequency, streak |-> 0]]
           /\ Arrive(NewReq("POST /habits", "getHabitById", user, id))
    /\ UNCHANGED <<now, tasks, scheduledJobs, timers, sent, ret, calc, boot>>

\* POST /habits: getHabitById(habitId, userId) resolves.
PostHabitRead(r) ==
    /\ At_(r, "POST /habits", "getHabitById")
    /\ Continue(r, [r EXCEPT !.pc = "getUser",
                              !.habit = getHabitById(r.id, r.user)])
    /\ UNCHANGED <<now, tasks, habits, scheduledJobs, timers, sent, ret, keys, calc, boot>>

\* POST /habits: getUser resolves or rejects; the recurring reminder is
\* scheduled (reading insertedHabit.frequency throws when the habit is null).
PostHabitUser(r) ==
    /\ At_(r, "POST /habits", "getUser")
    /\ \E u \in GetUserOutcomes :
         SetSched(IF u = "email" /\ r.habit.exists
                  THEN scheduleHabitReminder(Sched, r.id, r.habit,
                                             r.user)
                  ELSE Sched)
    /\ Respond(r, 201)
    /\ UNCHANGED <<now, tasks, habits, sent, ret, keys, calc, boot>>

\* PATCH /tasks/:id/toggle: toggleTaskCompletion's getTaskById resolves.
ToggleTaskArrives(user, id) ==
    /\ id \in keys
    /\ LET task == getTaskById(id, user)
           req == NewReq("PATCH /tasks/:id/toggle", "updateTask", user, id)
       IN  IF ~task.exists THEN UNCHANGED reqs
           ELSE Arrive([req EXCEPT !.task = task])
    /\ UNCHANGED <<now, tasks, habits, scheduledJobs, timers, sent, ret, keys, calc, boot>>

ToggleTask(user, id) == CanArrive /\ ToggleTaskArrives(user, id)

\* updateTask: the existence and ownership check resolves.
ToggleTaskCheck(r) ==
    /\ At_(r, "PATCH /tasks/:id/toggle", "updateTask")
    /\ IF ~getTaskById(r.id, r.user).exists THEN Respond(r, 404)
       ELSE Continue(r, [r EXCEPT !.pc = "update"])
    /\ UNCHANGED <<now, tasks, habits, scheduledJobs, timers, sent, ret, keys, calc, boot>>

\* db.ref(path).update(updates): the fields are merged into the node, which
\* is created when it is absent.
dbUpdateCompleted(id, completed) ==
    [tasks EXCEPT ![id] = IF tasks[id].exists
                          THEN [tasks[id] EXCEPT !.completed = completed]
                          ELSE [NoTask EXCEPT !.exists = TRUE, !.completed = completed]]

\* updateTask: update({completed: !task.completed}) is persisted.
ToggleTaskWrite(r) ==
    /\ At_(r, "PATCH /tasks/:id/toggle", "update")
    /\ tasks' = dbUpdateCompleted(r.id, ~r.task.completed)
    /\ Continue(r, [r EXCEPT !.pc = "getTaskById"])
    /\ UNCHANGED <<now, habits, scheduledJobs, timers, sent, ret, keys, calc, boot>>

\* updateTask's getTaskById resolves; the handler cancels the reminders of a
\* completed task, or goes on to reschedule.
ToggleTaskRead(r) ==
    /\ At_(r, "PATCH /tasks/:id/toggle", "getTaskById")
    /\ LET updatedTask == getTaskById(r.id, r.user)
       IN  IF ~updatedTask.exists
           THEN Respond(r, 404) /\ UNCHANGED <<scheduledJobs, timers>>
           ELSE IF updatedTask.completed
           THEN Respond(r, 200) /\ SetSched(cancelAllJobsForTask(Sched, r.id))
           ELSE IF updatedTask.dueDate # NoDate /\ updatedTask.dueDate > now
           THEN /\ Continue(r, [r EXCEPT !.pc = "getUser", !.task = updatedTask])
                /\ UNCHANGED <<scheduledJobs, timers>>
           ELSE Respond(r, 200) /\ UNCHANGED <<scheduledJobs, timers>>
    /\ UNCHANGED <<now, tasks, habits, sent, ret, keys, calc, boot>>

\* The toggle handler's getUser resolves or rejects: cancel, then reschedule.
ToggleTaskUser(r) ==
    /\ At_(r, "PATCH /tasks/:id/toggle", "getUser")
    /\ \E u \in GetUserOutcomes :
         SetSched(IF u = "email"
                  THEN scheduleTaskDueReminder(cancelAllJobsForTask(Sched, r.id),
                                               r.id, r.task, r.user).S
                  ELSE Sched)
    /\ Respond(r, 200)
    /\ UNCHANGED <<now, tasks, habits, sent, ret, keys, calc, boot>>

\* DELETE /tasks/:id: getTaskById resolves; the task's reminders are cancelled.
DeleteTaskArrives(user, id) ==
    /\ id \in keys
    /\ LET task == getTaskById(id, user)
           req == NewReq("DELETE /tasks/:id", "deleteTask", user, id)
       IN  IF ~task.exists
           THEN UNCHANGED <<reqs, scheduledJobs, timers>>
           ELSE /\ Arrive(req)
                /\ SetSched(cancelAllJobsForTask(Sched, id))
    /\ UNCHANGED <<now, tasks, habits, sent, ret, keys, calc, boot>>

DeleteTask(user, id) == CanArrive /\ DeleteTaskArrives(user, id)

\* deleteTask: the existence and ownership check resolves.
DeleteTaskCheck(r) ==
    /\ At_(r, "DELETE /tasks/:id", "deleteTask")
    /\ IF ~getTaskById(r.id, r.user).exists THEN Respond(r, 204)
       ELSE Continue(r, [r EXCEPT !.pc = "remove"])
    /\ UNCHANGED <<now, tasks, habits, scheduledJobs, timers, sent, ret, keys, calc, boot>>

\* deleteTask: remove() is persisted.
DeleteTaskWrite(r) ==
    /\ At_(r, "DELETE /tasks/:id", "remove")
    /\ tasks' = [tasks EXCEPT ![r.id] = NoTask]
    /\ Respond(r, 204)
    /\ UNCHANGED <<now, habits, scheduledJobs, timers, sent, ret, keys, calc, boot>>

\* PATCH /habits/:id/complete: incrementHabitStreak's getHabitById resolves.
CompleteHabit(user, id) ==
    /\ CanArrive
    /\ id \in keys
    /\ LET habit == getHabitById(id, user)
           req == NewReq("PATCH /habits/:id/complete", "updateHabit", user, id)
       IN  /\ habit.streak < MaxStreak
           /\ IF ~habit.exists THEN UNCHANGED reqs
              ELSE Arrive([req EXCEPT !.habit = habit])
    /\ UNCHANGED <<now, tasks, habits, scheduledJobs, timers, sent, ret, keys, calc, boot>>

\* updateHabit: the existence and ownership check resolves.
CompleteHabitCheck(r) ==
    /\ At_(r, "PATCH /habits/:id/complete", "updateHabit")
    /\ IF ~getHabitById(r.id, r.user).exists THEN Respond(r, 404)
       ELSE Continue(r, [r EXCEPT !.pc = "update"])
    /\ UNCHANGED <<now, tasks, habits, scheduledJobs, timers, sent, ret, keys, calc, boot>>

\* updateHabit: update({streak: currentStreak + 1, ...}) is persisted; the
\* getHabitById that follows only builds the response.
CompleteHabitWrite(r) ==
    /\ At_(r, "PATCH /habits/:id/complete", "update")
    /\ habits' = [habits EXCEPT ![r.id] =
                     IF habits[r.id].exists
                     THEN [habits[r.id] EXCEPT !.streak = r.habit.streak + 1]
                     ELSE [NoHabit EXCEPT !.exists = TRUE,
                                          !.streak = r.habit.streak + 1]]
    /\ Respond(r, 200)
    /\ UNCHANGED <<now, tasks, scheduledJobs, timers, sent, ret, keys, calc, boot>>

\* The bodies of the PUT /tasks/:id requests.
SetDueDate(d) == [NoUpdates EXCEPT !.hasDueDate = TRUE, !.dueDate = d]
SetCompleted(c) == [NoUpdates EXCEPT !.hasCompleted = TRUE, !.completed = c]
TaskUpdates ==
    {NoUpdates, SetDueDate(T0 + 2 * HOUR), SetDueDate(T0 + 15 * MINUTE),
     SetCompleted(TRUE), SetCompleted(FALSE)}

\* dueDate !== undefined || completed !== undefined
Touches(updates) == updates.hasDueDate \/ updates.hasCompleted

\* db.ref(path).update(updates) on a task: the fields given are merged into
\* the node, which is created when it is absent.
dbUpdateTask(id, updates) ==
    LET node == IF tasks[id].exists THEN tasks[id]
                ELSE [NoTask EXCEPT !.exists = TRUE]
        n1 == IF updates.hasDueDate
              THEN [node EXCEPT !.dueDate = updates.dueDate] ELSE node
        n2 == IF updates.hasCompleted
              THEN [n1 EXCEPT !.completed = updates.completed] ELSE n1
    IN  [tasks EXCEPT ![id] = n2]

\* PUT /tasks/:id: getTaskById resolves; the reminders are cancelled when the
\* body has dueDate or completed.
PutTaskArrives(user, id, updates) ==
    /\ id \in keys
    /\ LET task == getTaskById(id, user)
           req == [NewReq("PUT /tasks/:id", "updateTask", user, id)
                     EXCEPT !.updates = updates]
       IN  IF ~task.exists
           THEN UNCHANGED <<reqs, scheduledJobs, timers>>
           ELSE /\ Arrive(req)
                /\ SetSched(IF Touches(updates)
                            THEN cancelAllJobsForTask(Sched, id) ELSE Sched)
    /\ UNCHANGED <<now, tasks, habits, sent, ret, keys, calc, boot>>

PutTask(user, id, updates) == CanArrive /\ PutTaskArrives(user, id, updates)

\* updateTask: the existence and ownership check resolves; the handler
\* throws on the null that updateTask returns, unless the body has neither field.
PutTaskCheck(r) ==
    /\ At_(r, "PUT /tasks/:id", "updateTask")
    /\ IF ~getTaskById(r.id, r.user).exists
       THEN Respond(r, IF Touches(r.updates) THEN 500 ELSE 200)
       ELSE Continue(r, [r EXCEPT !.pc = "update"])
    /\ UNCHANGED <<now, tasks, habits, scheduledJobs, timers, sent, ret, keys, calc, boot>>

\* updateTask: update(updates) is persisted, or rejects.
PutTaskWrite(r) ==
    /\ At_(r, "PUT /tasks/:id", "update")
    /\ \E dbOk \in BOOLEAN :
         IF dbOk
         THEN /\ tasks' = dbUpdateTask(r.id, r.updates)
              /\ Continue(r, [r EXCEPT !.pc = "getTaskById"])
         ELSE /\ Respond(r, 500)
              /\ UNCHANGED tasks
    /\ UNCHANGED <<now, habits, scheduledJobs, timers, sent, ret, keys, calc, boot>>

\* updateTask's getTaskById resolves; the handler responds or goes on to
\* reschedule.
PutTaskRead(r) ==
    /\ At_(r, "PUT /tasks/:id", "getTaskById")
    /\ LET updatedTask == getTaskById(r.id, r.user)
       IN  IF ~Touches(r.updates) THEN Respond(r, 200)
           ELSE IF ~updatedTask.exists THEN Respond(r, 500)
           ELSE IF updatedTask.dueDate # NoDate /\ ~updatedTask.completed
           THEN Continue(r, [r EXCEPT !.pc = "getUser", !.task = updatedTask])
           ELSE Respond(r, 200)
    /\ UNCHANGED <<now, tasks, habits, scheduledJobs, timers, sent, ret, keys, calc, boot>>

\* The update handler's getUser resolves or rejects; the reminder is scheduled.
PutTaskUser(r) ==
    /\ At_(r, "PUT /tasks/:id", "getUser")
    /\ \E u \in GetUserOutcomes :
         SetSched(IF u = "email"
                  THEN scheduleTaskDueReminder(Sched, r.id, r.task, r.user).S
                  ELSE Sched)
    /\ Respond(r, 200)
    /\ UNCHANGED <<now, tasks, habits, sent, ret, keys, calc, boot>>

\* The bodies of the PUT /habits/:id requests.
SetFrequency(f) == [NoUpdates EXCEPT !.hasFrequency = TRUE, !.frequency = f]
HabitUpdates == {NoUpdates, SetFrequency("daily"), SetFrequency("weekly")}

\* db.ref(path).update(updates) on a habit: the fields given are merged into
\* the node, which is created when it is absent.
dbUpdateHabit(id, updates) ==
    LET node == IF habits[id].exists THEN habits[id]
                ELSE [NoHabit EXCEPT !.exists = TRUE]
    IN  [habits EXCEPT ![id] =
            IF updates.hasFrequency
            THEN [node EXCEPT !.frequency = updates.frequency] ELSE node]

\* PUT /habits/:id: getHabitById resolves; the handler calls updateHabit.
PutHabit(user, id, updates) ==
    /\ CanArrive
    /\ id \in keys
    /\ LET habit == getHabitById(id, user)
           req == [NewReq("PUT /habits/:id", "updateHabit", user, id)
                     EXCEPT !.updates = updates]
       IN  IF ~habit.exists THEN UNCHANGED reqs
           ELSE Arrive([req EXCEPT !.habit = habit])
    /\ UNCHANGED <<now, tasks, habits, scheduledJobs, timers, sent, ret, keys, calc, boot>>

\* updateHabit: the existence and ownership check resolves; the handler
\* answers with the null that updateHabit returns.
PutHabitCheck(r) ==
    /\ At_(r, "PUT /habits/:id", "updateHabit")
    /\ IF ~getHabitById(r.id, r.user).exists THEN Respond(r, 200)
       ELSE Continue(r, [r EXCEPT !.pc = "update"])
    /\ UNCHANGED <<now, tasks, habits, scheduledJobs, timers, sent, ret, keys, calc, boot>>

\* updateHabit: update(updates) is persisted; the getHabitById that follows
\* only builds the response.
PutHabitWrite(r) ==
    /\ At_(r, "PUT /habits/:id", "update")
    /\ habits' = dbUpdateHabit(r.id, r.updates)
    /\ Respond(r, 200)
    /\ UNCHANGED <<now, tasks, scheduledJobs, timers, sent, ret, keys, calc, boot>>

\* DELETE /habits/:id: getHabitById resolves; the handler cancels the habit's
\* reminders and calls deleteHabit.
DeleteHabit(user, id) ==
    /\ CanArrive
    /\ id \in keys
    /\ LET habit == getHabitById(id, user)
           req == NewReq("DELETE /habits/:id", "deleteHabit", user, id)
       IN  IF ~habit.exists
           THEN UNCHANGED <<reqs, scheduledJobs, timers>>
           ELSE /\ Arrive([req EXCEPT !.habit = habit])
                /\ SetSched(cancelAllJobsForHabit(Sched, id))
    /\ UNCHANGED <<now, tasks, habits, sent, ret, keys, calc, boot>>

\* deleteHabit: the existence and ownership check resolves.
DeleteHabitCheck(r) ==
    /\ At_(r, "DELETE /habits/:id", "deleteHabit")
    /\ IF ~getHabitById(r.id, r.user).exists THEN Respond(r, 204)
       ELSE Continue(r, [r EXCEPT !.pc = "remove"])
    /\ UNCHANGED <<now, tasks, habits, scheduledJobs, timers, sent, ret, keys, calc, boot>>

\* deleteHabit: remove() is persisted.
DeleteHabitWrite(r) ==
    /\ At_(r, "DELETE /habits/:id", "remove")
    /\ habits' = [habits EXCEPT ![r.id] = NoHabit]
    /\ Respond(r, 204)
    /\ UNCHANGED <<now, tasks, scheduledJobs, timers, sent, ret, keys, calc, boot>>

(***************************************************************************)
(* The system.                                                             *)
(***************************************************************************)
NoRet == [fn |-> "none", taskId |-> Null, dueDate |-> NoDate, completed |-> FALSE,
          value |-> NoJobId]
NoCalc == [pc |-> "off", frequency |-> Null, now |-> NoDate, next |-> NoDate]
\* The process before startServer() and initializeScheduler() are called.
NoBoot == [server |-> "off", pc |-> "off", tasks |-> <<>>, habits |-> <<>>,
           todo |-> <<>>, users |-> {}]

Init ==
    /\ now = T0
    /\ tasks = [id \in TaskIds |-> NoTask]
    /\ habits = [id \in HabitIds |-> NoHabit]
    /\ scheduledJobs = <<>>
    /\ timers = <<>>
    /\ sent = {}
    /\ ret = NoRet
    /\ reqs = EmptyBag
    /\ keys = {}
    /\ calc = NoCalc
    /\ boot = NoBoot

\* Tasks: their handlers and their reminders.
NextTasks ==
    \/ \E t \in TaskInstants : Tick(t)
    \/ \E t \in TimerIds : TimerFires(t)
    \/ \E t \in TimerIds : TaskFetched(t)
    \/ \E t \in TimerIds : MailSent(t)
    \/ \E u \in Clients, d \in DueDates \cup {NoDate} : PostTask(u, d)
    \/ \E r \in Requests : PostTaskRead(r)
    \/ \E r \in Requests : PostTaskUser(r)
    \/ \E u \in Clients, id \in TaskIds : ToggleTask(u, id)
    \/ \E r \in Requests : ToggleTaskCheck(r)
    \/ \E r \in Requests : ToggleTaskWrite(r)
    \/ \E r \in Requests : ToggleTaskRead(r)
    \/ \E r \in Requests : ToggleTaskUser(r)
    \/ \E u \in Clients, id \in TaskIds : DeleteTask(u, id)
    \/ \E r \in Requests : DeleteTaskCheck(r)
    \/ \E r \in Requests : DeleteTaskWrite(r)

\* Habits: their handlers and their reminders.
NextHabits ==
    \/ \E t \in HabitInstants : Tick(t)
    \/ \E t \in TimerIds : TimerFires(t)
    \/ \E t \in TimerIds : HabitFetched(t)
    \/ \E t \in TimerIds : MailSent(t)
    \/ \E u \in Clients, f \in Frequencies : PostHabit(u, f)
    \/ \E r \in Requests : PostHabitRead(r)
    \/ \E r \in Requests : PostHabitUser(r)
    \/ \E u \in Clients, id \in HabitIds : CompleteHabit(u, id)
    \/ \E r \in Requests : CompleteHabitCheck(r)
    \/ \E r \in Requests : CompleteHabitWrite(r)

\* Habits that are created, updated and deleted.
NextHabitEdits ==
    \/ \E t \in HabitInstants : Tick(t)
    \/ \E t \in TimerIds : TimerFires(t)
    \/ \E t \in TimerIds : HabitFetched(t)
    \/ \E t \in TimerIds : MailSent(t)
    \/ \E u \in Clients, f \in Frequencies : PostHabit(u, f)
    \/ \E r \in Requests : PostHabitRead(r)
    \/ \E r \in Requests : PostHabitUser(r)
    \/ \E u \in Clients, id \in HabitIds, upd \in HabitUpdates : PutHabit(u, id, upd)
    \/ \E r \in Requests : PutHabitCheck(r)
    \/ \E r \in Requests : PutHabitWrite(r)
    \/ \E u \in Clients, id \in HabitIds : DeleteHabit(u, id)
    \/ \E r \in Requests : DeleteHabitCheck(r)
    \/ \E r \in Requests : DeleteHabitWrite(r)

\* Tasks that are created and updated.
NextUpdate ==
    \/ \E t \in TaskInstants : Tick(t)
    \/ \E t \in TimerIds : TimerFires(t)
    \/ \E t \in TimerIds : TaskFetched(t)
    \/ \E t \in TimerIds : MailSent(t)
    \/ \E u \in Clients, d \in DueDates \cup {NoDate} : PostTask(u, d)
    \/ \E r \in Requests : PostTaskRead(r)
    \/ \E r \in Requests : PostTaskUser(r)
    \/ \E u \in Clients, id \in TaskIds, upd \in TaskUpdates : PutTask(u, id, upd)
    \/ \E r \in Requests : PutTaskCheck(r)
    \/ \E r \in Requests : PutTaskWrite(r)
    \/ \E r \in Requests : PutTaskRead(r)
    \/ \E r \in Requests : PutTaskUser(r)

Spec == Init /\ [][NextTasks]_vars
SpecUpdate == Init /\ [][NextUpdate]_vars

\* Handlers of one task that overlap: a request arrives while up to
\* MaxOverlap - 1 others are suspended at an await.  The task is created due
\* in an hour, its due date is moved to two hours ahead, it is toggled.
MayOverlap == BagCardinality(reqs) < MaxOverlap

NextOverlap ==
    \/ \E t \in TaskInstants : Tick(t)
    \/ \E t \in TimerIds : TimerFires(t)
    \/ \E t \in TimerIds : TaskFetched(t)
    \/ \E t \in TimerIds : MailSent(t)
    \/ \E u \in Clients : MayOverlap /\ PostTaskArrives(u, T0 + HOUR)
    \/ \E r \in Requests : PostTaskRead(r)
    \/ \E r \in Requests : PostTaskUser(r)
    \/ \E u \in Clients, id \in TaskIds : MayOverlap /\ ToggleTaskArrives(u, id)
    \/ \E r \in Requests : ToggleTaskCheck(r)
    \/ \E r \in Requests : ToggleTaskWrite(r)
    \/ \E r \in Requests : ToggleTaskRead(r)
    \/ \E r \in Requests : ToggleTaskUser(r)
    \/ \E u \in Clients, id \in TaskIds :
         MayOverlap /\ PutTaskArrives(u, id, SetDueDate(T0 + 2 * HOUR))
    \/ \E r \in Requests : PutTaskCheck(r)
    \/ \E r \in Requests : PutTaskWrite(r)
    \/ \E r \in Requests : PutTaskRead(r)
    \/ \E r \in Requests : PutTaskUser(r)

SpecOverlap == Init /\ [][NextOverlap]_vars

\* A task whose update and delete handlers overlap: the task is created due
\* in an hour, its due date is moved to two hours ahead, it is deleted.
NextDeleteOverlap ==
    \/ \E t \in TaskInstants : Tick(t)
    \/ \E t \in TimerIds : TimerFires(t)
    \/ \E t \in TimerIds : TaskFetched(t)
    \/ \E t \in TimerIds : MailSent(t)
    \/ \E u \in Clients : PostTask(u, T0 + HOUR)
    \/ \E r \in Requests : PostTaskRead(r)
    \/ \E r \in Requests : PostTaskUser(r)
    \/ \E u \in Clients, id \in TaskIds :
         MayOverlap /\ PutTaskArrives(u, id, SetDueDate(T0 + 2 * HOUR))
    \/ \E r \in Requests : PutTaskCheck(r)
    \/ \E r \in Requests : PutTaskWrite(r)
    \/ \E r \in Requests : PutTaskRead(r)
    \/ \E r \in Requests : PutTaskUser(r)
    \/ \E u \in Clients, id \in TaskIds : MayOverlap /\ DeleteTaskArrives(u, id)
    \/ \E r \in Requests : DeleteTaskCheck(r)
    \/ \E r \in Requests : DeleteTaskWrite(r)

SpecDeleteOverlap == Init /\ [][NextDeleteOverlap]_vars

\* A task that is created due in an hour and updated, one request at a time,
\* until an update has cancelled its reminder: that update is the last one.
NoneCancelled == \A t \in TimerIds : timers[t].state # "cancelled"

NextFailedUpdate ==
    \/ \E t \in TaskInstants : Tick(t)
    \/ \E t \in TimerIds : TimerFires(t)
    \/ \E t \in TimerIds : TaskFetched(t)
    \/ \E t \in TimerIds : MailSent(t)
    \/ \E u \in Clients : PostTask(u, T0 + HOUR)
    \/ \E r \in Requests : PostTaskRead(r)
    \/ \E r \in Requests : PostTaskUser(r)
    \/ \E u \in Clients, id \in TaskIds, upd \in TaskUpdates :
         NoneCancelled /\ PutTask(u, id, upd)
    \/ \E r \in Requests : PutTaskCheck(r)
    \/ \E r \in Requests : PutTaskWrite(r)
    \/ \E r \in Requests : PutTaskRead(r)
    \/ \E r \in Requests : PutTaskUser(r)

SpecFailedUpdate == Init /\ [][NextFailedUpdate]_vars
SpecHabits == Init /\ [][NextHabits]_vars
SpecHabitEdits == Init /\ [][NextHabitEdits]_vars

(***************************************************************************)
(* The scheduler alone, over a database that holds one task: its exported  *)
(* operations called with any arguments.                                   *)
(***************************************************************************)
InitScheduler ==
    /\ now = T0
    /\ \E c \in BOOLEAN, e \in BOOLEAN :
         tasks = [id \in TaskIds |->
                    IF e THEN [exists |-> TRUE, userId |-> "u1",
                               dueDate |-> T0 + HOUR, completed |-> c]
                    ELSE NoTask]
    /\ habits = [id \in HabitIds |-> NoHabit]
    /\ scheduledJobs = <<>>
    /\ timers = <<>>
    /\ sent = {}
    /\ ret = NoRet
    /\ reqs = EmptyBag
    /\ keys = TaskIds
    /\ calc = NoCalc
    /\ boot = NoBoot

NextScheduler ==
    \/ \E t \in TaskInstants : Tick(t)
    \/ \E t \in TimerIds : TimerFires(t)
    \/ \E t \in TimerIds : TaskFetched(t)
    \/ \E t \in TimerIds : MailSent(t)
    \/ \E id \in TaskIds, d \in CallDueDates \cup {NoDate}, c \in BOOLEAN, u \in Users :
         CallScheduleTaskDueReminder(id, d, c, u)

SpecScheduler == InitScheduler /\ [][NextScheduler]_vars

(***************************************************************************)
(* The recurrence calculator alone: one frequency and one current instant, *)
(* any day of EpochYear at one of three times of day.                      *)
(***************************************************************************)
CalcInstants ==
    {At(0, d, h, 30) : d \in 1..DaysInYear(EpochYear), h \in {0, 9, 23}}

InitRecurrence ==
    /\ now = T0
    /\ tasks = [id \in TaskIds |-> NoTask]
    /\ habits = [id \in HabitIds |-> NoHabit]
    /\ scheduledJobs = <<>>
    /\ timers = <<>>
    /\ sent = {}
    /\ ret = NoRet
    /\ reqs = EmptyBag
    /\ keys = {}
    /\ boot = NoBoot
    /\ \E f \in Frequencies \cup {Null}, t \in CalcInstants :
         calc = [pc |-> "input", frequency |-> f, now |-> t, next |-> NoDate]

\* scheduleNextRecurrence computes nextExecutionDate.
ComputeNext ==
    /\ calc.pc = "input"
    /\ calc' = [calc EXCEPT !.pc = "done",
                            !.next = nextExecutionDate(calc.frequency, calc.now)]
    /\ UNCHANGED <<now, tasks, habits, scheduledJobs, timers, sent, ret, reqs, keys,
                   boot>>

SpecRecurrence == InitRecurrence /\ [][ComputeNext]_vars

(***************************************************************************)
(* The scheduler's exported operations called directly, in any order, over *)
(* a database that holds two tasks and a habit.  scheduleJob is called     *)
(* with ids built as its callers build them: kind, entity id, timestamp.   *)
(***************************************************************************)
CoreTaskIds == {"t1", "t2"}
\* The clock starts at T0 and moves once, past every timestamp.
CoreExecuteAts == {T0, T0 + 45 * MINUTE}
CoreInstants == {T0 + HOUR}

CoreJob(kind, entity, executeAt) ==
    [jobId |-> <<kind, entity, executeAt>>,
     executeAt |-> executeAt,
     callback |-> IF kind = "task_due" THEN "sendTaskDueReminderEmail"
                                       ELSE "sendHabitReminderEmail",
     data |-> IF kind = "task_due" THEN TaskPayload("u1", entity)
                                   ELSE HabitPayload("u1", entity, "daily")]

\* One task's jobs at every timestamp, the other entities' at the future one.
CoreJobs ==
    {CoreJob("task_due", "t1", e) : e \in CoreExecuteAts}
    \cup {CoreJob("task_due", "t2", T0 + 45 * MINUTE)}
    \cup {CoreJob("reminder", id, T0 + 45 * MINUTE) : id \in HabitIds}

InitCore ==
    /\ now = T0
    /\ tasks = [id \in CoreTaskIds |->
                  [exists |-> TRUE, userId |-> "u1", dueDate |-> T0 + HOUR,
                   completed |-> FALSE]]
    /\ habits = [id \in HabitIds |->
                   [exists |-> TRUE, userId |-> "u1", frequency |-> "daily",
                    streak |-> 0]]
    /\ scheduledJobs = <<>>
    /\ timers = <<>>
    /\ sent = {}
    /\ ret = NoRet
    /\ reqs = EmptyBag
    /\ keys = CoreTaskIds \cup HabitIds
    /\ calc = NoCalc
    /\ boot = NoBoot

\* scheduleJob(jobId, executeAt, callback, data), which returns jobId (the
\* model follows MaxCalls calls).
CallScheduleJob(job) ==
    LET S == scheduleJob(Sched, job.jobId, job.executeAt, job.callback, job.data)
    IN  /\ Len(S.timers) <= MaxCalls
        /\ SetSched(S)
        /\ ret' = [fn |-> "scheduleJob", value |-> job.jobId]
        /\ UNCHANGED <<now, tasks, habits, sent, reqs, keys, calc, boot>>

CallCancelJob(jobId) ==
    LET r == cancelJob(Sched, jobId)
    IN  /\ SetSched(r.S)
        /\ ret' = [fn |-> "cancelJob", found |-> r.value]
        /\ UNCHANGED <<now, tasks, habits, sent, reqs, keys, calc, boot>>

CallCancelAllJobsForTask(taskId) ==
    /\ SetSched(cancelAllJobsForTask(Sched, taskId))
    /\ ret' = [fn |-> "cancelAllJobsForTask", id |-> taskId]
    /\ UNCHANGED <<now, tasks, habits, sent, reqs, keys, calc, boot>>

CallCancelAllJobsForHabit(habitId) ==
    /\ SetSched(cancelAllJobsForHabit(Sched, habitId))
    /\ ret' = [fn |-> "cancelAllJobsForHabit", id |-> habitId]
    /\ UNCHANGED <<now, tasks, habits, sent, reqs, keys, calc, boot>>

NextCore ==
    \/ \E t \in CoreInstants : Tick(t)
    \/ \E t \in TimerIds : TimerFires(t)
    \/ \E t \in TimerIds : TaskFetched(t)
    \/ \E t \in TimerIds : HabitFetched(t)
    \/ \E t \in TimerIds : MailSent(t)
    \/ \E job \in CoreJobs : CallScheduleJob(job)
    \/ \E job \in CoreJobs : CallCancelJob(job.jobId)
    \/ \E id \in CoreTaskIds : CallCancelAllJobsForTask(id)
    \/ \E id \in HabitIds : CallCancelAllJobsForHabit(id)

SpecCore == InitCore /\ [][NextCore]_vars

(***************************************************************************)
(* initializeScheduler called over a database that holds persisted tasks   *)
(* and habits.  Object.entries visits the keys of a snapshot in order.     *)
(***************************************************************************)
PersistedTaskIds == {"t1", "t2"}
PersistedHabitIds == {"h1", "h2"}
TaskOrder == <<"t1", "t2">>
HabitOrder == <<"h1", "h2">>
RecoveryInstants == {T0 + 50 * MINUTE, T0 + 2 * HOUR}

\* The tasks and the habits a database may hold at the start.
PersistedTasks ==
    {NoTask,
     [exists |-> TRUE, userId |-> "u1", dueDate |-> NoDate, completed |-> FALSE],
     [exists |-> TRUE, userId |-> "u1", dueDate |-> T0 + HOUR, completed |-> TRUE],
     [exists |-> TRUE, userId |-> "u1", dueDate |-> T0 + 15 * MINUTE, completed |-> FALSE],
     [exists |-> TRUE, userId |-> "u1", dueDate |-> T0 + HOUR, completed |-> FALSE],
     [exists |-> TRUE, userId |-> "u1", dueDate |-> T0 + 2 * HOUR, completed |-> FALSE]}
PersistedHabits ==
    {NoHabit,
     [exists |-> TRUE, userId |-> "u1", frequency |-> "daily", streak |-> 0],
     [exists |-> TRUE, userId |-> "u1", frequency |-> "weekly", streak |-> 1]}

\* The number of entities a database holds.
Persisted(ts, hs) ==
    Cardinality({id \in DOMAIN ts : ts[id].exists})
      + Cardinality({id \in DOMAIN hs : hs[id].exists})

InitPersisted ==
    /\ now = T0
    /\ tasks \in [PersistedTaskIds -> PersistedTasks]
    /\ habits \in [PersistedHabitIds -> PersistedHabits]
    /\ Persisted(tasks, habits) <= MaxPersisted
    /\ scheduledJobs = <<>>
    /\ timers = <<>>
    /\ sent = {}
    /\ ret = NoRet
    /\ reqs = EmptyBag
    /\ keys = {id \in PersistedTaskIds : tasks[id].exists}
                \cup {id \in PersistedHabitIds : habits[id].exists}
    /\ calc = NoCalc
    /\ boot = NoBoot

\* Object.entries(snapshot.val() || {}): the keys of the snapshot, in order.
Entries(order, snapshot) == SelectSeq(order, LAMBDA id : snapshot[id].exists)

\* The tasks loop does not `continue` on the task.
Upcoming(task) ==
    /\ task.dueDate # NoDate
    /\ ~task.completed
    /\ task.dueDate - REMINDER_LEAD > now

\* The tasks loop runs over `todo` up to its next await: the entries from the
\* first upcoming task on.
RECURSIVE NextUpcoming(_, _)
NextUpcoming(todo, snapshot) ==
    IF todo = <<>> THEN <<>>
    ELSE IF Upcoming(snapshot[Head(todo)]) THEN todo
    ELSE NextUpcoming(Tail(todo), snapshot)

\* initializeScheduler() is called: it awaits the tasks snapshot.
CallInitializeScheduler ==
    /\ boot.pc = "off"
    /\ boot' = [boot EXCEPT !.pc = "tasksSnapshot"]
    /\ UNCHANGED <<now, tasks, habits, scheduledJobs, timers, sent, ret, reqs, keys, calc>>

\* db.ref('tasks').once('value') resolves, and the loop runs to the first
\* getUser; or it rejects, and the outer catch logs.
RecoveryTasksRead ==
    /\ boot.pc = "tasksSnapshot"
    /\ \E dbOk \in BOOLEAN :
         IF ~dbOk THEN boot' = [boot EXCEPT !.pc = "failed"]
         ELSE LET todo == NextUpcoming(Entries(TaskOrder, tasks), tasks)
              IN  boot' = [boot EXCEPT !.tasks = tasks, !.todo = todo,
                                       !.pc = IF todo = <<>> THEN "habitsSnapshot"
                                              ELSE "getUserTask"]
    /\ UNCHANGED <<now, tasks, habits, scheduledJobs, timers, sent, ret, reqs, keys, calc>>

\* The tasks loop that schedules whatever the lookup gave.
RecoveryTaskUser_withoutEmail ==
    /\ boot.pc = "getUserTask"
    /\ LET taskId == Head(boot.todo)
           task == boot.tasks[taskId]
           todo == NextUpcoming(Tail(boot.todo), boot.tasks)
           S == scheduleTaskDueReminder(Sched, taskId, task, task.userId).S
       IN  \E u \in GetUserOutcomes :
             /\ scheduledJobs' = S.jobs
             /\ timers' = S.timers
             /\ boot' = [boot EXCEPT !.todo = todo,
                                     !.users = @ \cup {<<taskId, u>>},
                                     !.pc = IF todo = <<>> THEN "habitsSnapshot"
                                            ELSE "getUserTask"]
    /\ UNCHANGED <<now, tasks, habits, sent, ret, reqs, keys, calc>>

\* admin.auth().getUser(task.userId) resolves or rejects for the task at the
\* head of `todo`; the loop goes on to the next getUser or to the habits.
RecoveryTaskUser ==
    /\ boot.pc = "getUserTask"
    /\ LET taskId == Head(boot.todo)
           task == boot.tasks[taskId]
           todo == NextUpcoming(Tail(boot.todo), boot.tasks)
       IN  \E u \in GetUserOutcomes :
             LET S == IF u = "email"
                      THEN scheduleTaskDueReminder(Sched, taskId, task, task.userId).S
                      ELSE Sched
             IN  /\ scheduledJobs' = S.jobs
                 /\ timers' = S.timers
                 /\ boot' = [boot EXCEPT !.todo = todo,
                                         !.users = @ \cup {<<taskId, u>>},
                                         !.pc = IF todo = <<>> THEN "habitsSnapshot"
                                                ELSE "getUserTask"]
    /\ UNCHANGED <<now, tasks, habits, sent, ret, reqs, keys, calc>>

\* db.ref('habits').once('value') resolves, and the loop runs to the first
\* getUser; or it rejects, and the outer catch logs.
RecoveryHabitsRead ==
    /\ boot.pc = "habitsSnapshot"
    /\ \E dbOk \in BOOLEAN :
         IF ~dbOk THEN boot' = [boot EXCEPT !.pc = "failed"]
         ELSE LET todo == Entries(HabitOrder, habits)
              IN  boot' = [boot EXCEPT !.habits = habits, !.todo = todo,
                                       !.pc = IF todo = <<>> THEN "done"
                                              ELSE "getUserHabit"]
    /\ UNCHANGED <<now, tasks, habits, scheduledJobs, timers, sent, ret, reqs, keys, calc>>

\* The habits loop without its try/catch: a lookup that rejects ends the pass
\* in the outer catch.
RecoveryHabitUser_abortsOnFailure ==
    /\ boot.pc = "getUserHabit"
    /\ LET habitId == Head(boot.todo)
           habit == boot.habits[habitId]
           todo == Tail(boot.todo)
       IN  \E u \in GetUserOutcomes :
             LET S == IF u = "email"
                      THEN scheduleHabitReminder(Sched, habitId, habit, habit.userId)
                      ELSE Sched
             IN  /\ scheduledJobs' = S.jobs
                 /\ timers' = S.timers
                 /\ boot' = [boot EXCEPT !.todo = todo,
                                         !.users = @ \cup {<<habitId, u>>},
                                         !.pc = IF u = "throws" THEN "failed"
                                                ELSE IF todo = <<>> THEN "done"
                                                ELSE "getUserHabit"]
    /\ UNCHANGED <<now, tasks, habits, sent, ret, reqs, keys, calc>>

\* admin.auth().getUser(habit.userId) resolves or rejects for the habit at the
\* head of `todo`; the loop goes on to the next habit or ends.
RecoveryHabitUser ==
    /\ boot.pc = "getUserHabit"
    /\ LET habitId == Head(boot.todo)
           habit == boot.habits[habitId]
           todo == Tail(boot.todo)
       IN  \E u \in GetUserOutcomes :
             LET S == IF u = "email"
                      THEN scheduleHabitReminder(Sched, habitId, habit, habit.userId)
                      ELSE Sched
             IN  /\ scheduledJobs' = S.jobs
                 /\ timers' = S.timers
                 /\ boot' = [boot EXCEPT !.todo = todo,
                                         !.users = @ \cup {<<habitId, u>>},
                                         !.pc = IF todo = <<>> THEN "done"
                                                ELSE "getUserHabit"]
    /\ UNCHANGED <<now, tasks, habits, sent, ret, reqs, keys, calc>>

NextRecovery ==
    \/ \E t \in RecoveryInstants : Tick(t)
    \/ \E t \in TimerIds : TimerFires(t)
    \/ \E t \in TimerIds : TaskFetched(t)
    \/ \E t \in TimerIds : MailSent(t)
    \/ CallInitializeScheduler
    \/ RecoveryTasksRead
    \/ RecoveryTaskUser
    \/ RecoveryHabitsRead
    \/ RecoveryHabitUser

SpecRecovery == InitPersisted /\ [][NextRecovery]_vars

(***************************************************************************)
(* The process's startup (index.js) over a database that holds at least a  *)
(* task and a habit, so that seedDatabase finds both nodes and inserts     *)
(* nothing.                                                                *)
(***************************************************************************)
Environments == {"development", "production"}

InitStartup ==
    /\ InitPersisted
    /\ \E id \in PersistedTaskIds : tasks[id].exists
    /\ \E id \in PersistedHabitIds : habits[id].exists

\* startServer() is called: it awaits initializeDatabase().
StartServer ==
    /\ boot.server = "off"
    /\ boot' = [boot EXCEPT !.server = "initializeDatabase"]
    /\ UNCHANGED <<now, tasks, habits, scheduledJobs, timers, sent, ret, reqs, keys, calc>>

\* initializeDatabase() finds the structure and resolves, and startServer
\* seeds (development) or listens; or it rejects and the process exits.
DatabaseInitialized ==
    /\ boot.server = "initializeDatabase"
    /\ \E dbOk \in BOOLEAN, env \in Environments :
         boot' = [boot EXCEPT !.server = IF ~dbOk THEN "exited"
                                         ELSE IF env = "development"
                                         THEN "seedDatabase" ELSE "listening"]
    /\ UNCHANGED <<now, tasks, habits, scheduledJobs, timers, sent, ret, reqs, keys, calc>>

\* seedDatabase() finds data in every node and resolves, and startServer
\* listens; or it rejects and the process exits.
DatabaseSeeded ==
    /\ boot.server = "seedDatabase"
    /\ \E dbOk \in BOOLEAN :
         boot' = [boot EXCEPT !.server = IF dbOk THEN "listening" ELSE "exited"]
    /\ UNCHANGED <<now, tasks, habits, scheduledJobs, timers, sent, ret, reqs, keys, calc>>

NextStartup ==
    \/ \E t \in RecoveryInstants : Tick(t)
    \/ StartServer
    \/ DatabaseInitialized
    \/ DatabaseSeeded

SpecStartup == InitStartup /\ [][NextStartup]_vars

(***************************************************************************)
(* Requests on the entities of another user: a user creates a task and a   *)
(* habit, and every other user reads, updates, deletes and toggles them.   *)
(***************************************************************************)
\* GET /tasks/:id and GET /habits/:id: the handler answers with what the
\* model's read gave.
GetTask(user, id) ==
    /\ id \in keys
    /\ ret' = [fn |-> "GET /tasks/:id", user |-> user, id |-> id,
               found |-> getTaskById(id, user).exists]
    /\ UNCHANGED <<now, tasks, habits, scheduledJobs, timers, sent, reqs, keys, calc, boot>>

GetHabit(user, id) ==
    /\ id \in keys
    /\ ret' = [fn |-> "GET /habits/:id", user |-> user, id |-> id,
               found |-> getHabitById(id, user).exists]
    /\ UNCHANGED <<now, tasks, habits, scheduledJobs, timers, sent, reqs, keys, calc, boot>>

\* The users other than the owner of a persisted task, of a persisted habit.
Strangers(entity) == {u \in Users : entity.exists /\ entity.userId # u}

NextIsolation ==
    \/ \E t \in TaskInstants : Tick(t)
    \/ \E t \in TimerIds : TimerFires(t)
    \/ \E t \in TimerIds : TaskFetched(t)
    \/ \E t \in TimerIds : MailSent(t)
    \/ \E u \in Users : PostTask(u, T0 + HOUR)
    \/ \E r \in Requests : PostTaskRead(r)
    \/ \E r \in Requests : PostTaskUser(r)
    \/ \E u \in Users, f \in {"daily"} : PostHabit(u, f)
    \/ \E r \in Requests : PostHabitRead(r)
    \/ \E r \in Requests : PostHabitUser(r)
    \/ \E id \in TaskIds : \E u \in Strangers(tasks[id]) : GetTask(u, id)
    \/ \E id \in TaskIds : \E u \in Strangers(tasks[id]) :
         \E upd \in TaskUpdates : PutTask(u, id, upd)
    \/ \E id \in TaskIds : \E u \in Strangers(tasks[id]) : DeleteTask(u, id)
    \/ \E id \in TaskIds : \E u \in Strangers(tasks[id]) : ToggleTask(u, id)
    \/ \E id \in HabitIds : \E u \in Strangers(habits[id]) : GetHabit(u, id)
    \/ \E id \in HabitIds : \E u \in Strangers(habits[id]) :
         \E upd \in HabitUpdates : PutHabit(u, id, upd)
    \/ \E id \in HabitIds : \E u \in Strangers(habits[id]) : DeleteHabit(u, id)
    \/ \E id \in HabitIds : \E u \in Strangers(habits[id]) : CompleteHabit(u, id)

SpecIsolation == Init /\ [][NextIsolation]_vars

(***************************************************************************)
(* The claims.                                                             *)
(***************************************************************************)
TaskCallback(t) == timers[t].callback = "sendTaskDueReminderEmail"
HabitCallback(t) == timers[t].callback = "sendHabitReminderEmail"
InFlight(t) == timers[t].state \in {"fetch", "send"}
NineOClock(day) == day * DAY + 9 * HOUR

\* C1: in every reachable state a job id is a key of the Job Store if and
\* only if its timer is live: created, not yet fired and not cancelled.
C1_StoreIffTimerLive ==
    /\ \A id \in DOMAIN scheduledJobs :
         timers[scheduledJobs[id].timerId].state = "live"
    /\ \A t \in TimerIds :
         timers[t].state = "live" => timers[t].jobId \in DOMAIN scheduledJobs

\* C2: no fired job stays in the Job Store after its callback ended, whether
\* it ended normally ("done") or with an error ("failed").
C2_FiredJobRemoved ==
    \A id \in DOMAIN scheduledJobs :
        timers[scheduledJobs[id].timerId].state \notin {"done", "failed"}

\* C3: when the callback of a recurring job ends, normally or with an error,
\* the job of the next occurrence is scheduled in that step.
C3_RecurringAlwaysRescheduled ==
    [][\A t \in TimerIds :
         (InFlight(t) /\ timers[t].data.recurring
            /\ timers'[t].state \in {"done", "failed"})
         => LET next == nextExecutionDate(timers[t].data.frequency, now)
                jobId == <<"reminder", timers[t].data.habitId, next>>
            IN  /\ Len(timers') = Len(timers) + 1
                /\ jobId \in DOMAIN scheduledJobs'
                /\ scheduledJobs'[jobId].timerId = Len(timers')]_vars

\* C4: no callback starts before its job's scheduledFor.
C4_NeverBeforeScheduledFor ==
    \A t \in TimerIds :
        InFlight(t) => timers[t].startedAt >= timers[t].scheduledFor

\* C5: for a task that is not completed and is due strictly more than 15
\* minutes from now, scheduleTaskDueReminder registers exactly one job, not
\* recurring, with scheduledFor = dueDate - 15 minutes, on one new live timer,
\* changes no other job, and returns that job's id.
C5_DueReminderScheduled ==
    [][\A id \in TaskIds, d \in CallDueDates, u \in Users :
         (CallScheduleTaskDueReminder(id, d, FALSE, u) /\ d > now + 15 * MINUTE)
         => LET jobId == <<"task_due", id, d - 15 * MINUTE>>
                timerId == Len(timers) + 1
            IN  /\ ret'.value = jobId
                /\ DOMAIN scheduledJobs' = DOMAIN scheduledJobs \cup {jobId}
                /\ \A j \in DOMAIN scheduledJobs \ {jobId} :
                     scheduledJobs'[j] = scheduledJobs[j]
                /\ scheduledJobs'[jobId].scheduledFor = d - 15 * MINUTE
                /\ scheduledJobs'[jobId].data.taskId = id
                /\ ~scheduledJobs'[jobId].data.recurring
                /\ scheduledJobs'[jobId].timerId = timerId
                /\ Len(timers') = timerId
                /\ timers'[timerId].state = "live"
                /\ timers'[timerId].jobId = jobId
                /\ \A t \in TimerIds : timers'[t] = timers[t]]_vars

C5_Witness ==
    /\ ret.fn = "scheduleTaskDueReminder"
    /\ ~ret.completed
    /\ ret.dueDate = now + HOUR
    /\ ret.value = <<"task_due", ret.taskId, now + 45 * MINUTE>>
    /\ ret.value \in DOMAIN scheduledJobs

\* C6: for a task without due date, or completed, or whose due date minus 15
\* minutes is not strictly after now, scheduleTaskDueReminder returns null and
\* leaves the Job Store and the timers unchanged.
C6_NoReminderNoEffect ==
    [][\A id \in TaskIds, d \in CallDueDates \cup {NoDate}, c \in BOOLEAN, u \in Users :
         (CallScheduleTaskDueReminder(id, d, c, u)
            /\ (d = NoDate \/ c \/ d - 15 * MINUTE <= now))
         => /\ ret'.value = NoJobId
            /\ UNCHANGED <<scheduledJobs, timers>>]_vars

C6_Witness ==
    /\ ret.fn = "scheduleTaskDueReminder"
    /\ ~ret.completed
    /\ ret.dueDate - 15 * MINUTE = now
    /\ ret.value = NoJobId

\* C7: when the callback of a one-shot task reminder that found its task
\* present and not completed ends, at most one message was sent for the job
\* (exactly one if the callback returned), the Job Store holds no job for that
\* task, and no successor was scheduled.
C7_OneShotTaskReminder ==
    [][\A t \in TimerIds :
         (TaskCallback(t) /\ timers[t].state = "send"
            /\ timers'[t].state \in {"done", "failed"})
         => /\ {m \in sent : m.timer = t} = {}
            /\ {m \in sent' : m.timer = t} \subseteq {Message(t)}
            /\ timers'[t].state = "done" => Message(t) \in sent'
            /\ \A id \in DOMAIN scheduledJobs' :
                 scheduledJobs'[id].data.taskId # timers[t].data.taskId
            /\ Len(timers') = Len(timers)]_vars

\* C8: if the task fetched at fire time is absent, not owned by the job's user
\* or completed, the task reminder sends no message and returns the matching
\* no-op result; it fails only if the fetch itself failed.  Messages are only
\* ever sent by callbacks that found their task or habit.
C8_NoSendForAbsentOrCompleted ==
    [][/\ \A t \in TimerIds :
            (TaskCallback(t) /\ timers[t].state = "fetch"
               /\ timers'[t].state # "fetch")
            => LET id == timers[t].data.taskId
                   absent == \/ ~tasks[id].exists
                             \/ tasks[id].userId # timers[t].data.userId
                   completed == ~absent /\ tasks[id].completed
               IN  (absent \/ completed)
                   => /\ sent' = sent
                      /\ timers'[t].state \in {"done", "failed"}
                      /\ timers'[t].state = "failed"
                           => timers'[t].result = "fetch_threw"
                      /\ timers'[t].state = "done"
                           => timers'[t].result =
                                IF absent THEN "task_not_found"
                                          ELSE "task_completed"
       /\ sent' # sent
            => \E t \in TimerIds :
                 /\ timers[t].state = "send"
                 /\ timers[t].task.exists \/ timers[t].habit.exists
                 /\ ~timers[t].task.completed
                 /\ sent' = sent \cup {Message(t)}]_vars

C8_Witness ==
    \E t \in TimerIds :
        /\ timers[t].state = "done"
        /\ timers[t].result = "task_completed"
        /\ sent = {}

\* C9: when the callback of a recurring habit reminder returns and its job
\* was the only one of the habit, the Job Store holds exactly one job of the
\* habit afterwards: a new recurring one on a new live timer, at 09:00 on the
\* day the job's frequency gives (weekly: seven days after the day of the
\* return, daily: the next day).  The streak in the message is the one
\* fetched, and the one fetched is the habit's streak at the fetch.
C9_RecurringHabitSuccessor ==
    [][\A t \in TimerIds :
         (HabitCallback(t) /\ timers[t].data.recurring /\ InFlight(t))
         => LET tm == timers[t]
                h == tm.data.habitId
                JobsFor(jobs) == {id \in DOMAIN jobs : jobs[id].data.habitId = h}
                new == Len(timers) + 1
            IN  /\ ( /\ timers'[t].state = "done"
                     /\ JobsFor(scheduledJobs) = {tm.jobId}
                     /\ scheduledJobs[tm.jobId].timerId = t )
                   => /\ Cardinality(JobsFor(scheduledJobs')) = 1
                      /\ Len(timers') = new
                      /\ timers'[new].state = "live"
                      /\ \A id \in JobsFor(scheduledJobs') :
                           /\ scheduledJobs'[id].timerId = new
                           /\ timers'[new].jobId = id
                           /\ scheduledJobs'[id].data = tm.data
                           /\ tm.data.frequency = "weekly"
                                => scheduledJobs'[id].scheduledFor
                                     = NineOClock(now \div DAY + 7)
                           /\ tm.data.frequency = "daily"
                                => scheduledJobs'[id].scheduledFor
                                     = NineOClock(now \div DAY + 1)
                /\ (tm.state = "fetch" /\ timers'[t].state = "send")
                   => timers'[t].habit.streak = habits[h].streak
                /\ (tm.state = "send" /\ timers'[t].state = "done")
                   => \E m \in sent' \ sent :
                        /\ m.timer = t
                        /\ m.streak = tm.habit.streak
                        /\ sent' = sent \cup {m}]_vars

C9_Witness ==
    \E t \in TimerIds, id \in DOMAIN scheduledJobs :
        /\ timers[t].state = "done"
        /\ timers[t].result = "sent"
        /\ \E m \in sent : m.timer = t /\ m.jobId[1] = "reminder" /\ m.streak = 1
        /\ scheduledJobs[id].data.frequency = "weekly"
        /\ scheduledJobs[id].timerId # t
        /\ timers[scheduledJobs[id].timerId].state = "live"
        /\ scheduledJobs[id].scheduledFor = At(1, 7, 9, 0)
        /\ Cardinality(DOMAIN scheduledJobs) = 1

\* C10: the next occurrence is at 09:00, one day after the current day for
\* "daily" and for an unknown or missing frequency, seven days after it for
\* "weekly", and on a date of the following calendar month for "monthly".
C10_NextOccurrence ==
    calc.pc = "done"
    => LET day == calc.now \div DAY
           nextDay == calc.next \div DAY
           MonthNo(t) == getFullYear(t) * 12 + getMonth(t)
       IN  /\ calc.next % DAY = 9 * HOUR
           /\ calc.frequency = "daily" => nextDay = day + 1
           /\ calc.frequency = "weekly" => nextDay = day + 7
           /\ calc.frequency = "monthly"
                => MonthNo(calc.next) = MonthNo(calc.now) + 1
           /\ calc.frequency \notin {"daily", "weekly", "monthly"}
                => nextDay = day + 1

\* The jobs `ids` left the store and their live timers were cleared; every
\* other job and timer is as it was.
CancelledExactly(ids) ==
    /\ DOMAIN scheduledJobs' = DOMAIN scheduledJobs \ ids
    /\ \A j \in DOMAIN scheduledJobs' : scheduledJobs'[j] = scheduledJobs[j]
    /\ Len(timers') = Len(timers)
    /\ \A t \in TimerIds :
         IF /\ timers[t].state = "live"
            /\ \E j \in ids : scheduledJobs[j].timerId = t
         THEN timers'[t].state = "cancelled"
         ELSE timers'[t] = timers[t]

\* C11: cancelAllJobsForTask(taskId) removes from the Job Store exactly the
\* jobs whose payload's taskId is taskId and clears their timers; every other
\* job and timer is unchanged.  cancelAllJobsForHabit(habitId) does the same
\* for the jobs whose payload's habitId is habitId.
C11_CancelAllFrame ==
    [][/\ \A id \in CoreTaskIds :
            CallCancelAllJobsForTask(id)
            => CancelledExactly({j \in DOMAIN scheduledJobs :
                                   scheduledJobs[j].data.taskId = id})
       /\ \A id \in HabitIds :
            CallCancelAllJobsForHabit(id)
            => CancelledExactly({j \in DOMAIN scheduledJobs :
                                   scheduledJobs[j].data.habitId = id})]_vars

C11_Witness ==
    /\ ret.fn = "cancelAllJobsForTask"
    /\ \E t \in TimerIds : timers[t].state = "cancelled"
    /\ \E j \in DOMAIN scheduledJobs :
         /\ scheduledJobs[j].data.taskId # ret.id
         /\ timers[scheduledJobs[j].timerId].state = "live"
    /\ \A j \in DOMAIN scheduledJobs : scheduledJobs[j].data.taskId # ret.id

\* C12: cancelJob with an id that is not a key of the Job Store returns false
\* and changes neither the Job Store nor any timer.
C12_CancelUnknown ==
    [][\A job \in CoreJobs :
         (CallCancelJob(job.jobId) /\ job.jobId \notin DOMAIN scheduledJobs)
         => /\ ret'.found = FALSE
            /\ UNCHANGED <<scheduledJobs, timers>>]_vars

C12_Witness ==
    /\ ret.fn = "cancelJob"
    /\ ret.found = FALSE
    /\ \E j \in DOMAIN scheduledJobs :
         timers[scheduledJobs[j].timerId].state = "live"

\* C13: cancelJob returns true exactly when it cleared a timer that had not
\* fired yet; a callback in flight is not stopped and its job is not reported
\* as found and cancelled.
C13_TrueOnlyForPending ==
    [][\A job \in CoreJobs :
         CallCancelJob(job.jobId)
         => LET id == job.jobId
                pending == /\ id \in DOMAIN scheduledJobs
                           /\ timers[scheduledJobs[id].timerId].state = "live"
            IN  /\ ret'.found = pending
                /\ \A t \in TimerIds : InFlight(t) => timers'[t] = timers[t]]_vars

\* C19: after scheduleJob is called with an id that is already in the Job
\* Store there is one store entry and exactly one live timer for that id.
C19_IdempotentScheduling ==
    [][\A job \in CoreJobs :
         (CallScheduleJob(job) /\ job.jobId \in DOMAIN scheduledJobs)
         => /\ job.jobId \in DOMAIN scheduledJobs'
            /\ Cardinality({t \in 1..Len(timers') :
                              /\ timers'[t].state = "live"
                              /\ timers'[t].jobId = job.jobId}) = 1]_vars

\* C20: scheduleJob registers the job and returns its id for every executeAt;
\* when executeAt is in the past or less than one second ahead, the timer
\* waits the minimal delay of one second.
C20_DelayClamped ==
    [][\A job \in CoreJobs :
         CallScheduleJob(job)
         => /\ job.jobId \in DOMAIN scheduledJobs'
            /\ ret'.value = job.jobId
            /\ scheduledJobs'[job.jobId].timerId = Len(timers')
            /\ job.executeAt - now < 1
                 => timers'[Len(timers')].fireAt = now + 1]_vars

\* The jobs of the Job Store `jobs` whose payload names task `id`.
JobsForTask(jobs, id) == {j \in DOMAIN jobs : jobs[j].data.taskId = id}

\* The task-update handler of request r responds with the updated task in
\* this step; `task` is that task.
PutTaskResponds(r, task) ==
    \/ /\ PutTaskUser(r)
       /\ task = r.task
    \/ /\ PutTaskRead(r)
       /\ task = getTaskById(r.id, r.user)
       /\ task.exists
       /\ BagCardinality(reqs') < BagCardinality(reqs)

\* C14: a task update that sets dueDate or completed cancels every job of
\* the task that was pending when it started, and when it has responded with
\* the updated task the Job Store holds exactly one job for the task, at the
\* new due date minus 15 minutes, if the task is not completed and that
\* instant is in the future, and no job for the task otherwise.  An update
\* that sets neither field leaves the store and the timers unchanged.
C14_UpdateReschedules ==
    [][/\ \A u \in Clients, id \in TaskIds, upd \in TaskUpdates :
            (PutTask(u, id, upd) /\ reqs' # reqs)
            => IF Touches(upd)
               THEN CancelledExactly(JobsForTask(scheduledJobs, id))
               ELSE UNCHANGED <<scheduledJobs, timers>>
       /\ \A r \in Requests : \A task \in {r.task, getTaskById(r.id, r.user)} :
            PutTaskResponds(r, task)
            => IF ~Touches(r.updates) THEN UNCHANGED <<scheduledJobs, timers>>
               ELSE IF /\ ~task.completed
                       /\ task.dueDate # NoDate
                       /\ task.dueDate - 15 * MINUTE > now
               THEN /\ JobsForTask(scheduledJobs', r.id)
                         = {<<"task_due", r.id, task.dueDate - 15 * MINUTE>>}
                    /\ \A j \in JobsForTask(scheduledJobs', r.id) :
                         /\ scheduledJobs'[j].scheduledFor
                              = task.dueDate - 15 * MINUTE
                         /\ timers'[scheduledJobs'[j].timerId].state = "live"
               ELSE JobsForTask(scheduledJobs', r.id) = {}]_vars

\* The toggle handler of request r responds with the toggled task in this
\* step; `task` is that task.
ToggleTaskResponds(r, task) ==
    \/ /\ ToggleTaskUser(r)
       /\ task = r.task
    \/ /\ ToggleTaskRead(r)
       /\ task = getTaskById(r.id, r.user)
       /\ task.exists
       /\ BagCardinality(reqs') < BagCardinality(reqs)

\* C15: when the completion toggle has responded, the Job Store holds no job
\* for a task that is now completed; for a task that is now not completed and
\* due in the future, no job that was in the store for it still has a live
\* timer unless it is the one job the store now holds for the task, which is
\* at dueDate minus 15 minutes.
C15_ToggleReschedules ==
    [][\A r \in Requests : \A task \in {r.task, getTaskById(r.id, r.user)} :
         ToggleTaskResponds(r, task)
         => IF task.completed
            THEN JobsForTask(scheduledJobs', r.id) = {}
            ELSE (task.dueDate # NoDate /\ task.dueDate > now)
                 => LET after == JobsForTask(scheduledJobs', r.id)
                    IN  /\ after \subseteq
                             {<<"task_due", r.id, task.dueDate - 15 * MINUTE>>}
                        /\ \A j \in after :
                             scheduledJobs'[j].scheduledFor
                               = task.dueDate - 15 * MINUTE
                        /\ \A j \in JobsForTask(scheduledJobs, r.id) :
                             LET t == scheduledJobs[j].timerId
                             IN  timers'[t].state = "live"
                                 => /\ j \in after
                                    /\ scheduledJobs'[j].timerId = t]_vars

\* The jobs of the store whose payload has the habit id.
JobsForHabit(jobs, id) == {j \in DOMAIN jobs : jobs[j].data.habitId = id}

\* C16: once the habit delete has completed (the habit is gone and no request
\* is being handled), the Job Store holds no job whose payload references the
\* habit id, whatever the habit's timers were doing during the delete.
C16_DeletedHabitHasNoJob ==
    \A h \in keys \cap HabitIds :
        (~habits[h].exists /\ reqs = EmptyBag)
        => JobsForHabit(scheduledJobs, h) = {}

\* C17: when the fetch of a recurring habit reminder resolves and the habit
\* does not exist, the callback returns habit_not_found and sends nothing,
\* the Job Store no longer holds the fired job (no entry with its timer), and
\* the store holds a new job of the habit on a new live timer, with the
\* payload of the fired job, at the next occurrence of the payload's frequency.
C17_MissingHabitReschedules ==
    [][\A t \in TimerIds :
         LET tm == timers[t]
             h == tm.data.habitId
             new == Len(timers) + 1
             next == nextExecutionDate(tm.data.frequency, now)
         IN  ( /\ HabitCallback(t)
               /\ tm.state = "fetch"
               /\ tm.data.recurring
               /\ ~getHabitById(h, tm.data.userId).exists
               /\ timers'[t] # tm
               /\ timers'[t].state # "failed" )
             => /\ timers'[t].state = "done"
                /\ timers'[t].result = "habit_not_found"
                /\ sent' = sent
                /\ \A j \in DOMAIN scheduledJobs' : scheduledJobs'[j].timerId # t
                /\ Len(timers') = new
                /\ timers'[new].state = "live"
                /\ timers'[new].jobId = <<"reminder", h, next>>
                /\ <<"reminder", h, next>> \in DOMAIN scheduledJobs'
                /\ scheduledJobs'[<<"reminder", h, next>>].timerId = new
                /\ scheduledJobs'[<<"reminder", h, next>>].data = tm.data
                /\ scheduledJobs'[<<"reminder", h, next>>].scheduledFor = next]_vars

C17_Witness ==
    \E t \in TimerIds, j \in DOMAIN scheduledJobs :
        /\ timers[t].state = "done"
        /\ timers[t].result = "habit_not_found"
        /\ ~habits[scheduledJobs[j].data.habitId].exists
        /\ scheduledJobs[j].data.recurring
        /\ scheduledJobs[j].timerId # t
        /\ timers[scheduledJobs[j].timerId].state = "live"
        /\ sent = {}

\* C18: a request of the habit-update endpoint leaves the Job Store and the
\* timers as they are, and when the callback of a recurring reminder of an
\* existing habit returns, the new job is at the next occurrence of the
\* frequency the habit has then.
C18_NewFrequencyOnNextOccurrence ==
    [][/\ \A r \in Requests :
            (r.op = "PUT /habits/:id" /\ r \notin BagToSet(reqs'))
            => scheduledJobs' = scheduledJobs /\ timers' = timers
       /\ \A t \in TimerIds :
            LET tm == timers[t]
                habit == getHabitById(tm.data.habitId, tm.data.userId)
                new == Len(timers) + 1
            IN  ( /\ HabitCallback(t)
                  /\ InFlight(t)
                  /\ tm.data.recurring
                  /\ habit.exists
                  /\ timers'[t].state = "done"
                  /\ Len(timers') = new )
                => timers'[new].scheduledFor
                     = nextExecutionDate(habit.frequency, now)]_vars

\* The jobs of the store whose payload has the task id or the habit id, on a
\* live timer.
PendingForTask(id) ==
    {j \in JobsForTask(scheduledJobs, id) :
        timers[scheduledJobs[j].timerId].state = "live"}
PendingForHabit(id) ==
    {j \in JobsForHabit(scheduledJobs, id) :
        timers[scheduledJobs[j].timerId].state = "live"}

\* C21: once the server's startup sequence has completed (the server
\* listens), every persisted task that is not completed and whose reminder
\* time is in the future, and every persisted habit, has a pending job in the
\* Job Store.
C21_RecoveredAtStartup ==
    boot.server = "listening"
    => /\ \A id \in DOMAIN tasks :
            (tasks[id].exists /\ Upcoming(tasks[id])) => PendingForTask(id) # {}
       /\ \A id \in DOMAIN habits :
            habits[id].exists => PendingForHabit(id) # {}

\* The user records the pass's lookups gave for an entity.
LookedUp(b, id) == {u \in GetUserOutcomes : <<id, u>> \in b.users}

\* A persisted task that is not completed and whose reminder time, its due
\* date minus 15 minutes, is strictly in the future.
Qualifies(task) ==
    /\ task.exists
    /\ ~task.completed
    /\ task.dueDate # NoDate
    /\ task.dueDate - 15 * MINUTE > now

\* C22: a lookup that fails for one entity does not end the pass: the pass
\* goes on from a task or a habit to the next one, and when it is done every
\* task of the snapshot that still qualifies and every habit of the snapshot
\* has been looked up, and has a pending job when its lookup gave an email,
\* whatever the lookups of the other entities gave.
C22_FailureSkipsOneEntity ==
    [][/\ (boot.pc \in {"getUserTask", "getUserHabit"}) => boot'.pc # "failed"
       /\ (boot.pc # "done" /\ boot'.pc = "done")
          => /\ \A id \in DOMAIN boot'.tasks :
                  Qualifies(boot'.tasks[id])
                  => /\ LookedUp(boot', id) # {}
                     /\ "email" \in LookedUp(boot', id) => PendingForTask(id)' # {}
             /\ \A id \in DOMAIN boot'.habits :
                  boot'.habits[id].exists
                  => /\ LookedUp(boot', id) # {}
                     /\ "email" \in LookedUp(boot', id) => PendingForHabit(id)' # {}]_vars

C22_Witness ==
    /\ boot.pc = "done"
    /\ LookedUp(boot, "t1") = {"throws"}
    /\ LookedUp(boot, "t2") = {"email"}
    /\ LookedUp(boot, "h1") = {"email"}
    /\ PendingForTask("t1") = {}
    /\ PendingForTask("t2") # {}
    /\ PendingForHabit("h1") # {}

\* C23: the pass registers a job for a task exactly when the task qualifies
\* at that moment and its owner's lookup gave an email: the job
\* task_due_<id>_<dueDate minus 15 minutes> on a new live timer; any other
\* step of the tasks loop leaves the Job Store and the timers as they are,
\* and a task the loop passes without a lookup does not qualify.
C23_RecoversUpcomingTasks ==
    [][/\ (boot.pc = "getUserTask" /\ boot' # boot)
          => LET id == Head(boot.todo)
                 task == boot.tasks[id]
                 job == <<"task_due", id, task.dueDate - 15 * MINUTE>>
                 new == Len(timers) + 1
             IN  IF Qualifies(task) /\ "email" \in LookedUp(boot', id)
                 THEN /\ DOMAIN scheduledJobs' = DOMAIN scheduledJobs \cup {job}
                      /\ job \notin DOMAIN scheduledJobs
                      /\ scheduledJobs'[job].scheduledFor = task.dueDate - 15 * MINUTE
                      /\ scheduledJobs'[job].data.taskId = id
                      /\ ~scheduledJobs'[job].data.recurring
                      /\ scheduledJobs'[job].timerId = new
                      /\ Len(timers') = new
                      /\ timers'[new].state = "live"
                 ELSE scheduledJobs' = scheduledJobs /\ timers' = timers
       /\ (boot.pc \in {"tasksSnapshot", "getUserTask"} /\ boot'.pc = "habitsSnapshot")
          => \A id \in DOMAIN boot'.tasks :
               Qualifies(boot'.tasks[id]) => LookedUp(boot', id) # {}]_vars

C23_Witness ==
    /\ boot.pc = "done"
    /\ now = T0
    /\ tasks["t1"].exists /\ tasks["t1"].dueDate = T0 + 15 * MINUTE
    /\ ~tasks["t1"].completed
    /\ Qualifies(tasks["t2"])
    /\ LookedUp(boot, "t1") = {}
    /\ LookedUp(boot, "t2") = {"email"}
    /\ DOMAIN scheduledJobs = {<<"task_due", "t2", tasks["t2"].dueDate - 15 * MINUTE>>}

\* C24: for a habit whose owner's lookup gave an email the pass registers one
\* recurring job, reminder_<id>_<09:00 of the next day>, on a new live timer,
\* with the habit's frequency in its payload, whatever the habit's fields;
\* for any other lookup it registers nothing; and when the pass is done every
\* habit of the snapshot whose lookup gave an email has exactly one pending
\* job.
C24_RecoversEveryHabit ==
    [][/\ (boot.pc = "getUserHabit" /\ boot' # boot)
          => LET id == Head(boot.todo)
                 habit == boot.habits[id]
                 at == NineOClock(now \div DAY + 1)
                 job == <<"reminder", id, at>>
                 new == Len(timers) + 1
             IN  IF "email" \in LookedUp(boot', id)
                 THEN /\ DOMAIN scheduledJobs' = DOMAIN scheduledJobs \cup {job}
                      /\ job \notin DOMAIN scheduledJobs
                      /\ scheduledJobs'[job].scheduledFor = at
                      /\ scheduledJobs'[job].data.habitId = id
                      /\ scheduledJobs'[job].data.frequency = habit.frequency
                      /\ scheduledJobs'[job].data.recurring
                      /\ scheduledJobs'[job].timerId = new
                      /\ Len(timers') = new
                      /\ timers'[new].state = "live"
                 ELSE scheduledJobs' = scheduledJobs /\ timers' = timers
       /\ (boot.pc # "done" /\ boot'.pc = "done")
          => \A id \in DOMAIN boot'.habits :
               boot'.habits[id].exists
               => /\ LookedUp(boot', id) # {}
                  /\ "email" \in LookedUp(boot', id)
                       => Cardinality(PendingForHabit(id)') = 1]_vars

C24_Witness ==
    /\ boot.pc = "done"
    /\ habits["h1"].exists /\ habits["h1"].frequency = "daily"
    /\ habits["h2"].exists /\ habits["h2"].frequency = "weekly" /\ habits["h2"].streak = 1
    /\ DOMAIN scheduledJobs
         = {<<"reminder", "h1", At(0, 31, 9, 0)>>, <<"reminder", "h2", At(0, 31, 9, 0)>>}
    /\ \A j \in DOMAIN scheduledJobs :
         /\ scheduledJobs[j].data.recurring
         /\ timers[scheduledJobs[j].timerId].state = "live"

\* C25: when the callback of a fired job fails (its fetch or its send
\* rejects), the failure stays in that timer's callback: every other timer,
\* pending or in flight, is as it was, with its time to fire, the Job Store
\* and the process's other state are unchanged, and nothing is sent.
C25_FailureContained ==
    [][\A t \in TimerIds :
         (InFlight(t) /\ timers'[t].state = "failed")
         => /\ Len(timers') = Len(timers)
            /\ \A u \in TimerIds \ {t} : timers'[u] = timers[u]
            /\ scheduledJobs' = scheduledJobs
            /\ sent' = sent
            /\ boot' = boot]_vars

C25_Witness ==
    /\ Len(timers) = 2
    /\ timers[1].state = "failed"
    /\ timers[1].result = "fetch_threw"
    /\ timers[2].state = "done"
    /\ timers[2].result = "sent"
    /\ now = T0 + 2 * HOUR
    /\ \E m \in sent : m.timer = 2 /\ m.jobId = <<"task_due", "t2", T0 + 105 * MINUTE>>

C27_UserIsolation ==
    [][/\ \A id \in TaskIds : tasks[id].exists => tasks'[id] = tasks[id]
       /\ \A id \in HabitIds : habits[id].exists => habits'[id] = habits[id]
       /\ \A r \in BagToSet(reqs') : r.op \in {"POST /tasks", "POST /habits"}
       /\ \A t \in TimerIds : timers'[t].state # "cancelled"
       /\ \A j \in DOMAIN scheduledJobs :
            \/ j \in DOMAIN scheduledJobs' /\ scheduledJobs'[j] = scheduledJobs[j]
            \/ timers'[scheduledJobs[j].timerId].state = "done"
       /\ ret'.fn \in {"GET /tasks/:id", "GET /habits/:id"} => ~ret'.found]_vars

C27_Witness ==
    /\ ret.fn = "GET /tasks/:id"
    /\ ~ret.found
    /\ tasks[ret.id].exists
    /\ tasks[ret.id].userId \in Users \ {ret.user}
    /\ PendingForTask(ret.id) # {}
    /\ \E h \in HabitIds :
         /\ habits[h].exists
         /\ habits[h].userId = tasks[ret.id].userId
         /\ PendingForHabit(h) # {}
    /\ reqs = EmptyBag

\* The timers that are live with a payload naming task `id`, habit `id`.
LiveTimersForTask(id) ==
    {t \in TimerIds : timers[t].state = "live" /\ timers[t].data.taskId = id}

LiveTimersForHabit(id) ==
    {t \in TimerIds : timers[t].state = "live" /\ timers[t].data.habitId = id}

\* C28: in every reachable state, also while request handlers of one entity
\* overlap, each task and each habit has at most one pending job: at most one
\* entry of the Job Store names it, at most one live timer names it, and a
\* live timer naming it is the timer of that entry.
C28_OnePendingJobPerEntity ==
    /\ \A id \in TaskIds :
         /\ Cardinality(JobsForTask(scheduledJobs, id)) <= 1
         /\ Cardinality(LiveTimersForTask(id)) <= 1
         /\ \A t \in LiveTimersForTask(id) :
              \E j \in JobsForTask(scheduledJobs, id) : scheduledJobs[j].timerId = t
    /\ \A id \in HabitIds :
         /\ Cardinality(JobsForHabit(scheduledJobs, id)) <= 1
         /\ Cardinality(LiveTimersForHabit(id)) <= 1
         /\ \A t \in LiveTimersForHabit(id) :
              \E j \in JobsForHabit(scheduledJobs, id) : scheduledJobs[j].timerId = t

\* C29: whenever no request handler is in progress, every pending job that
\* names a task (an entry of the Job Store, or a live timer) matches the
\* persisted task: the task exists, is not completed, and the job is
\* scheduled for the task's due date minus 15 minutes.
C29_PendingJobsMatchTasks ==
    reqs = EmptyBag
    => \A id \in TaskIds :
         /\ \A j \in PendingForTask(id) :
              /\ tasks[id].exists
              /\ ~tasks[id].completed
              /\ scheduledJobs[j].scheduledFor = tasks[id].dueDate - 15 * MINUTE
         /\ \A t \in LiveTimersForTask(id) :
              /\ tasks[id].exists
              /\ ~tasks[id].completed
              /\ timers[t].scheduledFor = tasks[id].dueDate - 15 * MINUTE

\* C30: when a task update that sets dueDate or completed has cancelled the
\* task's pending reminder and then responds, after its persistence update
\* raised or after its user lookup, and the persisted task is still not
\* completed with the same due date, whose reminder time is in the future,
\* a reminder for that due date is pending.  The due date is the same when
\* the update was not persisted or the body has no dueDate.
C30_FailedUpdateKeepsReminder ==
    [][\A r \in Requests :
         LET task == tasks'[r.id]
         IN  ( /\ r.op = "PUT /tasks/:id"
               /\ Touches(r.updates)
               /\ r \notin BagToSet(reqs')
               /\ \E t \in TimerIds : timers[t].state = "cancelled"
               /\ r.pc = "update" \/ (r.pc = "getUser" /\ ~r.updates.hasDueDate)
               /\ task.exists
               /\ ~task.completed
               /\ task.dueDate # NoDate
               /\ task.dueDate - 15 * MINUTE > now )
             => \E j \in DOMAIN scheduledJobs' :
                  /\ scheduledJobs'[j].data.taskId = r.id
                  /\ scheduledJobs'[j].scheduledFor = task.dueDate - 15 * MINUTE
                  /\ timers'[scheduledJobs'[j].timerId].state = "live"]_vars

====
